---- MODULE Spec2Model ----
(***************************************************************************)
(* Model of the vulkan-ash bootstrap: the window handoff between the UI    *)
(* thread (winit ApplicationHandler) and the graphics thread (main.rs),    *)
(* the VulkanApp construction pipeline and its Drop, and the physical      *)
(* device selection of main.rs and util.rs.                                *)
(***************************************************************************)
EXTENDS Integers, Sequences, FiniteSets, TLC

(***************************************************************************)
(* Bounds of the model.                                                    *)
(***************************************************************************)
\* construction attempts (calls of VulkanApp::new) the model follows
MaxAttempts == 2
\* request-window signals the event queue distinguishes (more are merged)
MaxQueue == 2
\* resumed callbacks the event loop delivers
MaxResumed == 2
\* images the driver hands out for one swap chain
MaxImages == 2
\* queue families of one physical device
MaxFamilies == 3
\* physical devices the driver enumerates
MaxDevices == 2

VARIABLES
    \* ---- UI thread (struct Application, main.rs:50-53) ----
    windows,        \* Application.windows: the set of window ids in the map
    shared_window,  \* the slot Arc<Mutex<Option<Arc<Window>>>>: NoWindow or a window id
    events,         \* queued EventLoopProxyEvent::RequestWindowHandle signals
    uiPc,           \* "idle" | "lock_wait" (user_event blocked in lock()) | "panicked"
    uiLast,         \* the callback that returned last: "none" | "resumed" | "user_event"
    resumed_calls,  \* resumed callbacks delivered so far
    windows_made,   \* calls of create_window that returned a window
    slot_writes,    \* writes of the slot so far
    \* ---- the slot's mutex ----
    lockHolder,     \* "none" | "worker"  (the UI's hold is one atomic step)
    poisoned,       \* a thread panicked while it held the guard
    \* ---- graphics thread (closure of main.rs:670-718) ----
    wpc,            \* position of the worker
    vulkan_app,     \* "None" | "Some"
    attempts,       \* calls of VulkanApp::new begun
    lastResult,     \* how the last VulkanApp::new ended: "none" | "ok" | "err" | "panic"
    failedAt,       \* the stage of VulkanApp::new that failed last, "none" if none did
    errLogs,        \* log::error! lines written by the worker loop for a failed new
    failures,       \* stage failures so far (error returns and panics)
    pollObserved,   \* what the current poll saw: "none" | "empty" | "populated"
    pollSends,      \* send_event calls of the current poll
    pollBegins,     \* VulkanApp::new calls begun in the current poll
    runs,           \* calls of VulkanApp::run
    \* ---- API handles ----
    live,           \* handles created and not destroyed
    creates,        \* create calls of the current VulkanApp::new, in order
    destroys,       \* destroy calls of Drop, in order
    images,         \* number of images of the swap chain of the current run
    owners,         \* thread of every create/destroy/window call: set of <<op, thread>>
    \* ---- queue-family scan of one device ----
    scanPc, scanFamilies, scanMain, scanUtil,
    \* ---- device selection ----
    selPc, devs, selMain, selMap, selUtil,
    selQueries,     \* the driver queries main.rs made about the devices, in order
    \* ---- one negotiation step run on one input ----
    negPc,          \* "off" | "start" | "done"
    negIn,          \* the input, a record tagged by kind
    negMain,        \* what the main.rs code computes for it
    negLib,         \* what the util.rs / vulkan_create.rs code computes for it
    \* ---- the candidate filters run on one driver enumeration ----
    filtPc,         \* "off" | "start" | "each" | "ext_first" | "adq_first" | "done"
    filtDevs,       \* the driver's answers about the enumerated devices
    filtOut         \* the results so far, by name

uiVars == <<windows, shared_window, events, uiPc, uiLast, resumed_calls,
            windows_made, slot_writes>>
lockVars == <<lockHolder, poisoned>>
workerVars == <<wpc, vulkan_app, attempts, lastResult, failedAt, errLogs,
                failures,
                pollObserved, pollSends, pollBegins, runs>>
handleVars == <<live, creates, destroys, images, owners>>
scanVars == <<scanPc, scanFamilies, scanMain, scanUtil>>
selVars == <<selPc, devs, selMain, selMap, selUtil, selQueries>>
handoffVars == <<uiVars, lockVars, workerVars, handleVars>>
negVars == <<negPc, negIn, negMain, negLib>>
filtVars == <<filtPc, filtDevs, filtOut>>
vars == <<uiVars, lockVars, workerVars, handleVars, scanVars, selVars, negVars,
          filtVars>>

NoWindow == 0
\* the id winit gives the window made by the k-th successful create_window
WindowId(k) == k

Min(a, b) == IF a <= b THEN a ELSE b

RECURSIVE Reverse(_)
Reverse(s) == IF s = <<>> THEN <<>> ELSE Append(Reverse(Tail(s)), Head(s))

RECURSIVE SelectSeq2(_, _)
\* the subsequence of s of the handles whose kind is in kinds
SelectSeq2(s, kinds) ==
    IF s = <<>> THEN <<>>
    ELSE IF Head(s).kind \in kinds
         THEN <<Head(s)>> \o SelectSeq2(Tail(s), kinds)
         ELSE SelectSeq2(Tail(s), kinds)

Range(s) == {s[i] : i \in DOMAIN s}

\* an API handle: its kind, its index among the handles of that kind, its run
Handle(k, i, r) == [kind |-> k, idx |-> i, run |-> r]

(***************************************************************************)
(* The driver's answers about a physical device.                           *)
(*   families[i+1] is queue family i of the device (Vulkan numbers         *)
(*   families from 0): its queue_count, whether its queue_flags contain    *)
(*   GRAPHICS, and what get_physical_device_surface_support answers for    *)
(*   family index i ("yes" | "no" | "err").                                *)
(*   ext:   enumerate_device_extension_properties lists every required     *)
(*          extension ("yes"), misses one ("no") or fails ("err")          *)
(*   caps:  get_physical_device_surface_capabilities "ok" | "err"          *)
(*   fmts:  get_physical_device_surface_formats  "some" | "none" | "err"   *)
(*   modes: get_physical_device_surface_present_modes, likewise            *)
(***************************************************************************)
None == -1

Family(c, g, p) == [count |-> c, graphics |-> g, present |-> p]

Device(e, c, f, m, fams) ==
    [ext |-> e, caps |-> c, fmts |-> f, modes |-> m, families |-> fams]

\* sequences over S of length 0..n
SeqsUpTo(S, n) == UNION {[1..k -> S] : k \in 0..n}

\* props.iter().filter(|f| f.queue_count > 0): the families kept, in order
NonEmptyFamilies(fams) == SelectSeq(fams, LAMBDA f : f.count > 0)

RECURSIVE find_queue_families_from(_, _, _, _, _)
\* the loop of main.rs find_queue_families from enumerate position k on
find_queue_families_from(fams, kept, k, graphics, present) ==
    IF k >= Len(kept) THEN <<graphics, present>>
    ELSE LET family == kept[k + 1]
             g == IF family.graphics /\ graphics = None THEN k ELSE graphics
             \* the surface is asked about family index k of the device
             present_support == fams[k + 1].present
             p == IF present_support = "yes" /\ present = None THEN k ELSE present
         IN find_queue_families_from(fams, kept, k + 1, g, p)

\* main.rs VulkanApp::find_queue_families: (graphics, present), None if absent
find_queue_families(fams) ==
    find_queue_families_from(fams, NonEmptyFamilies(fams), 0, None, None)

\* main.rs VulkanApp::check_device_extension_support ("panic": unwrap failed)
check_device_extension_support(d) ==
    IF d.ext = "err" THEN "panic" ELSE IF d.ext = "yes" THEN "true" ELSE "false"

\* main.rs SwapChainSupportDetails::new: "panic" when one of the three
\* unwrapped queries fails, else "ok"
main_SwapChainSupportDetails_new(d) ==
    IF d.caps = "err" \/ d.fmts = "err" \/ d.modes = "err" THEN "panic" ELSE "ok"

\* is_device_suitable without the extension-support conjunct
is_device_suitable_without_extensions(d) ==
    LET qf == find_queue_families(d.families)
        extension_support == check_device_extension_support(d)
        details == main_SwapChainSupportDetails_new(d)
    IN IF extension_support = "panic" \/ details = "panic" THEN "panic"
       ELSE IF /\ qf[1] # None /\ qf[2] # None
               /\ d.fmts = "some" /\ d.modes = "some"
            THEN "true" ELSE "false"

\* main.rs VulkanApp::is_device_suitable: "true" | "false" | "panic"
is_device_suitable(d) ==
    LET qf == find_queue_families(d.families)
        extension_support == check_device_extension_support(d)
        details == main_SwapChainSupportDetails_new(d)
    IN IF extension_support = "panic" \/ details = "panic" THEN "panic"
       ELSE IF /\ qf[1] # None /\ qf[2] # None
               /\ extension_support = "true"
               /\ d.fmts = "some" /\ d.modes = "some"
            THEN "true" ELSE "false"

RECURSIVE main_find_from(_, _)
\* devices.into_iter().find(is_device_suitable) from position i on
main_find_from(ds, i) ==
    IF i > Len(ds) THEN [tag |-> "panic", dev |-> None]
    ELSE LET s == is_device_suitable(ds[i])
         IN IF s = "panic" THEN [tag |-> "panic", dev |-> None]
            ELSE IF s = "true" THEN [tag |-> "ok", dev |-> i]
            ELSE main_find_from(ds, i + 1)

\* main.rs VulkanApp::pick_physical_device; enumOk: enumerate_physical_devices
\* answered.  dev is the position of the device in the enumeration (from 1).
main_pick_physical_device(enumOk, ds) ==
    IF ~enumOk THEN [tag |-> "panic", dev |-> None] ELSE main_find_from(ds, 1)


\* one driver query about the device at position dev of the enumeration
Query(dev, query) == [dev |-> dev, query |-> query]

\* the queries of SwapChainSupportDetails::new (main.rs:631-647), in order;
\* an unwrap that fails ends the thread before the next query
SwapChainSupportDetails_queries(d) ==
    <<"surface_capabilities">>
    \o (IF d.caps = "err" THEN <<>>
        ELSE <<"surface_formats">>
             \o (IF d.fmts = "err" THEN <<>> ELSE <<"surface_present_modes">>))

\* the driver queries one call of is_device_suitable makes about d, in the
\* order of its statements (main.rs:282-288): the queue-family scan, the
\* extension list, then the surface's capabilities, formats and modes; all
\* of them before the && of line 290
is_device_suitable_queries(d) ==
    <<"queue_family_properties">>
    \o <<"device_extension_properties">>
    \o (IF d.ext = "err" THEN <<>> ELSE SwapChainSupportDetails_queries(d))

RECURSIVE main_queries_from(_, _)
\* the queries of devices.into_iter().find(is_device_suitable) from
\* position i on: find stops at the first suitable device or at a panic
main_queries_from(ds, i) ==
    IF i > Len(ds) THEN <<>>
    ELSE LET qs == is_device_suitable_queries(ds[i])
             here == [k \in 1..Len(qs) |-> Query(i, qs[k])]
         IN IF is_device_suitable(ds[i]) = "false"
            THEN here \o main_queries_from(ds, i + 1)
            ELSE here

\* the queries main.rs VulkanApp::pick_physical_device makes about devices
main_pick_queries(enumOk, ds) ==
    IF ~enumOk THEN <<>> ELSE main_queries_from(ds, 1)


(***************************************************************************)
(* util.rs: the filters over candidate lists.  A candidate is the position *)
(* of the device in the driver's enumeration ds (vk::PhysicalDevice        *)
(* handles are distinct).  A filter returns [tag |-> "ok", val |-> ...] or *)
(* [tag |-> "err"] (the ? operator returned the driver's error).           *)
(***************************************************************************)
Ok(v) == [tag |-> "ok", val |-> v]
Err == [tag |-> "err"]

\* util.rs physical_devices: every enumerated device, in enumeration order
physical_devices(enumOk, ds) ==
    IF ~enumOk THEN Err ELSE Ok([i \in 1..Len(ds) |-> i])

RECURSIVE devices_extension_support_from(_, _, _, _)
devices_extension_support_from(ds, devices, i, supported_devices) ==
    IF i > Len(devices) THEN Ok(supported_devices)
    ELSE LET d == ds[devices[i]]
         IN IF d.ext = "err" THEN Err
            ELSE devices_extension_support_from(ds, devices, i + 1,
                    IF d.ext = "yes" THEN Append(supported_devices, devices[i])
                    ELSE supported_devices)

\* the extension filter run on the driver's enumeration instead of on the
\* candidates it is given
devices_extension_support_of_enumeration(ds, devices) ==
    devices_extension_support_from(ds, [i \in 1..Len(ds) |-> i], 1, <<>>)

\* util.rs devices_extension_support
devices_extension_support(ds, devices) ==
    devices_extension_support_from(ds, devices, 1, <<>>)

RECURSIVE devices_swapchain_adequate_from(_, _, _, _)
devices_swapchain_adequate_from(ds, devices, i, supported_devices) ==
    IF i > Len(devices) THEN Ok(supported_devices)
    ELSE LET d == ds[devices[i]]
         IN IF d.fmts = "err" \/ d.modes = "err" THEN Err
            ELSE devices_swapchain_adequate_from(ds, devices, i + 1,
                    IF d.fmts = "none" \/ d.modes = "none" THEN supported_devices
                    ELSE Append(supported_devices, devices[i]))

\* the adequacy filter passing over the candidates whose query fails
devices_swapchain_adequate_skipping_errors(ds, devices) ==
    devices_swapchain_adequate_from(ds,
        SelectSeq(devices, LAMBDA x : ds[x].fmts # "err" /\ ds[x].modes # "err"),
        1, <<>>)

\* util.rs devices_swapchain_adequate
devices_swapchain_adequate(ds, devices) ==
    devices_swapchain_adequate_from(ds, devices, 1, <<>>)

RECURSIVE util_scan_from(_, _, _, _)
\* the inner loop of util.rs devices_queue_family_support for one device,
\* from enumerate position k on; entry is the index the map holds for the
\* device so far (None: no entry).  Err: the present-support query failed.
util_scan_from(fams, kept, k, entry) ==
    IF k >= Len(kept) THEN Ok(entry)
    ELSE LET family == kept[k + 1]
             \* graphics and present are declared inside the loop body
             graphics == IF family.graphics THEN k ELSE None
             present_support == fams[k + 1].present
             present == IF present_support = "yes" THEN k ELSE None
         IN IF present_support = "err" THEN Err
            ELSE util_scan_from(fams, kept, k + 1,
                    IF graphics # None /\ present # None THEN k ELSE entry)

\* the scan of one device: Err, or Ok of the index recorded as
\* graphics_queue_index and present_queue_index (None: nothing inserted)
util_scan(fams) == util_scan_from(fams, NonEmptyFamilies(fams), 0, None)

RECURSIVE devices_queue_family_support_from(_, _, _, _)
devices_queue_family_support_from(ds, devices, i, supported_devices) ==
    IF i > Len(devices) THEN Ok(supported_devices)
    ELSE LET dev == devices[i]
             r == util_scan(ds[dev].families)
         IN IF r.tag = "err" THEN Err
            ELSE devices_queue_family_support_from(ds, devices, i + 1,
                    IF r.val = None THEN supported_devices
                    ELSE [x \in (DOMAIN supported_devices) \cup {dev} |->
                            IF x = dev
                            THEN [graphics_queue_index |-> r.val,
                                  present_queue_index |-> r.val]
                            ELSE supported_devices[x]])

\* util.rs devices_queue_family_support: the DeviceMap (a function from the
\* kept devices to their DeviceDetails; a HashMap keeps no insertion order)
devices_queue_family_support(ds, devices) ==
    devices_queue_family_support_from(ds, devices, 1, <<>>)

RECURSIVE devices_extension_support_examined(_, _, _)
\* the candidates the loop of devices_extension_support reaches from
\* position i on (util.rs:249-251): the ? leaves the function at the first
\* candidate whose extension enumeration fails
devices_extension_support_examined(ds, devices, i) ==
    IF i > Len(devices) THEN <<>>
    ELSE <<devices[i]>>
         \o (IF ds[devices[i]].ext = "err" THEN <<>>
             ELSE devices_extension_support_examined(ds, devices, i + 1))

RECURSIVE devices_swapchain_adequate_examined(_, _, _)
\* the candidates the loop of devices_swapchain_adequate reaches from
\* position i on (util.rs:283-286)
devices_swapchain_adequate_examined(ds, devices, i) ==
    IF i > Len(devices) THEN <<>>
    ELSE <<devices[i]>>
         \o (IF ds[devices[i]].fmts = "err" \/ ds[devices[i]].modes = "err"
             THEN <<>>
             ELSE devices_swapchain_adequate_examined(ds, devices, i + 1))

RECURSIVE devices_queue_family_support_examined(_, _, _)
\* the candidates the outer loop of devices_queue_family_support reaches
\* from position i on (util.rs:317, 338-340)
devices_queue_family_support_examined(ds, devices, i) ==
    IF i > Len(devices) THEN <<>>
    ELSE <<devices[i]>>
         \o (IF util_scan(ds[devices[i]].families).tag = "err" THEN <<>>
             ELSE devices_queue_family_support_examined(ds, devices, i + 1))

\* util.rs pick_physical_device: the outcomes the call can have.  The loop
\* returns the first entry of devices.iter(); the iteration order of a
\* std HashMap (RandomState) is arbitrary and differs between maps, so
\* every key can come first.
pick_physical_device(devices) ==
    IF DOMAIN devices = {} THEN {Err}
    ELSE {Ok([dev |-> d, details |-> devices[d]]) : d \in DOMAIN devices}


(***************************************************************************)
(* The handoff and the pipeline: initial state (main.rs main, 657-668 and  *)
(* 720-723): no window, empty slot, no VulkanApp.                          *)
(***************************************************************************)
HandoffInit ==
    /\ windows = {} /\ shared_window = NoWindow /\ events = 0
    /\ uiPc = "idle" /\ uiLast = "none" /\ resumed_calls = 0
    /\ windows_made = 0 /\ slot_writes = 0
    /\ lockHolder = "none" /\ poisoned = FALSE
    /\ wpc = "lock" /\ vulkan_app = "None" /\ attempts = 0
    /\ lastResult = "none" /\ failedAt = "none" /\ errLogs = 0 /\ failures = 0
    /\ pollObserved = "none" /\ pollSends = 0 /\ pollBegins = 0 /\ runs = 0
    /\ live = {} /\ creates = <<>> /\ destroys = <<>> /\ images = 0
    /\ owners = {}

ScanOff == scanPc = "off" /\ scanFamilies = <<>> /\ scanMain = <<>> /\ scanUtil = <<>>
SelOff ==
    /\ selPc = "off" /\ devs = <<>> /\ selMain = <<>> /\ selMap = <<>>
    /\ selUtil = <<>> /\ selQueries = <<>>

NegOff == negPc = "off" /\ negIn = <<>> /\ negMain = <<>> /\ negLib = <<>>

FiltOff == filtPc = "off" /\ filtDevs = <<>> /\ filtOut = <<>>

Init == HandoffInit /\ ScanOff /\ SelOff /\ NegOff /\ FiltOff

\* a panic of the main thread ends the process, and the worker with it
ProcessAlive == uiPc # "panicked"

(***************************************************************************)
(* UI thread: the callbacks of impl ApplicationHandler for Application.    *)
(***************************************************************************)
\* resumed creating a window also when the map already holds one
resumed_always_creates(made) ==
    /\ ProcessAlive /\ uiPc = "idle" /\ resumed_calls < MaxResumed
    /\ resumed_calls' = resumed_calls + 1
    /\ IF made
       THEN /\ windows' = {WindowId(windows_made + 1)}
            /\ windows_made' = windows_made + 1
            /\ owners' = owners \cup {<<"create_window", "ui">>}
            /\ uiLast' = "resumed"
            /\ UNCHANGED uiPc
       ELSE /\ uiPc' = "panicked"
            /\ UNCHANGED <<windows, windows_made, uiLast, owners>>
    /\ UNCHANGED <<shared_window, events, slot_writes, lockVars, workerVars,
                   live, creates, destroys, images, scanVars, selVars, negVars, filtVars>>

\* main.rs Application::resumed; made: create_window returned a window
\* (create_window(..).unwrap() panics otherwise)
resumed(made) ==
    /\ ProcessAlive /\ uiPc = "idle" /\ resumed_calls < MaxResumed
    /\ resumed_calls' = resumed_calls + 1
    /\ IF windows # {}
       THEN /\ uiLast' = "resumed"
            /\ UNCHANGED <<windows, windows_made, uiPc, owners>>
       ELSE IF made
       THEN /\ windows' = {WindowId(windows_made + 1)}
            /\ windows_made' = windows_made + 1
            /\ owners' = owners \cup {<<"create_window", "ui">>}
            /\ uiLast' = "resumed"
            /\ UNCHANGED uiPc
       ELSE /\ uiPc' = "panicked"
            /\ UNCHANGED <<windows, windows_made, uiLast, owners>>
    /\ UNCHANGED <<shared_window, events, slot_writes, lockVars, workerVars,
                   live, creates, destroys, images, scanVars, selVars, negVars, filtVars>>

\* main.rs Application::user_event, up to the call of lock(): the event is
\* taken from the queue; without a window the handler only logs and returns
user_event ==
    /\ ProcessAlive /\ uiPc = "idle" /\ events > 0
    /\ events' = events - 1
    /\ IF windows # {}
       THEN uiPc' = "lock_wait" /\ UNCHANGED uiLast
       ELSE uiLast' = "user_event" /\ UNCHANGED uiPc
    /\ UNCHANGED <<windows, shared_window, resumed_calls, windows_made,
                   slot_writes, lockVars, workerVars, handleVars, scanVars,
                   selVars, negVars, filtVars>>

\* user_event that takes the lock and returns without storing the window
user_event_publish_no_store ==
    /\ ProcessAlive /\ uiPc = "lock_wait" /\ lockHolder = "none"
    /\ IF poisoned
       THEN uiPc' = "panicked" /\ UNCHANGED uiLast
       ELSE uiPc' = "idle" /\ uiLast' = "user_event"
    /\ UNCHANGED <<windows, shared_window, slot_writes, events, resumed_calls,
                   windows_made, lockVars, workerVars, handleVars, scanVars,
                   selVars, negVars, filtVars>>

\* main.rs Application::user_event, lines 91-92: lock().unwrap(), write the
\* slot, drop the guard.  lock() returns once the mutex is free; on a
\* poisoned mutex unwrap panics.
user_event_publish ==
    /\ ProcessAlive /\ uiPc = "lock_wait" /\ lockHolder = "none"
    /\ IF poisoned
       THEN /\ uiPc' = "panicked"
            /\ UNCHANGED <<shared_window, slot_writes, uiLast>>
       ELSE /\ shared_window' = CHOOSE w \in windows : TRUE
            /\ slot_writes' = slot_writes + 1
            /\ uiPc' = "idle"
            /\ uiLast' = "user_event"
    /\ UNCHANGED <<windows, events, resumed_calls, windows_made, lockVars,
                   workerVars, handleVars, scanVars, selVars, negVars, filtVars>>

(***************************************************************************)
(* Graphics thread: the poll loop of main.rs main, 673-703.                *)
(***************************************************************************)
\* line 675: window_shared_to_graphics_thread.lock().unwrap()
WorkerLock ==
    /\ ProcessAlive /\ wpc = "lock" /\ lockHolder = "none"
    /\ IF poisoned
       THEN wpc' = "panicked" /\ UNCHANGED lockHolder
       ELSE wpc' = "match" /\ lockHolder' = "worker"
    /\ pollObserved' = "none" /\ pollSends' = 0 /\ pollBegins' = 0
    /\ UNCHANGED <<uiVars, poisoned, vulkan_app, attempts, lastResult, failedAt, errLogs,
                   failures, runs, handleVars, scanVars, selVars, negVars, filtVars>>

\* the None arm sending the request signal twice
WorkerPollEmpty_send_twice(sent) ==
    /\ ProcessAlive /\ wpc = "match" /\ shared_window = NoWindow
    /\ pollObserved' = "empty"
    /\ pollSends' = pollSends + 2
    /\ events' = IF sent THEN Min(events + 2, MaxQueue) ELSE events
    /\ wpc' = "sleep"
    /\ UNCHANGED <<windows, shared_window, uiPc, uiLast, resumed_calls,
                   windows_made, slot_writes, lockVars, vulkan_app, attempts,
                   lastResult, failedAt, errLogs, failures, pollBegins, runs,
                   handleVars, scanVars, selVars, negVars, filtVars>>

\* lines 696-699: the slot is None; sent: send_event delivered the signal
\* (its result is discarded).  Signals beyond MaxQueue are merged.
WorkerPollEmpty(sent) ==
    /\ ProcessAlive /\ wpc = "match" /\ shared_window = NoWindow
    /\ pollObserved' = "empty"
    /\ pollSends' = pollSends + 1
    /\ events' = IF sent THEN Min(events + 1, MaxQueue) ELSE events
    /\ wpc' = "sleep"
    /\ UNCHANGED <<windows, shared_window, uiPc, uiLast, resumed_calls,
                   windows_made, slot_writes, lockVars, vulkan_app, attempts,
                   lastResult, failedAt, errLogs, failures, pollBegins, runs,
                   handleVars, scanVars, selVars, negVars, filtVars>>

\* lines 677-680: the slot is Some and vulkan_app is Some: break (the guard
\* is dropped on leaving the loop body)
WorkerPollBreak ==
    /\ ProcessAlive /\ wpc = "match" /\ shared_window # NoWindow
    /\ vulkan_app = "Some"
    /\ pollObserved' = "populated"
    /\ lockHolder' = "none"
    /\ wpc' = "run"
    /\ UNCHANGED <<uiVars, poisoned, vulkan_app, attempts, lastResult, failedAt, errLogs,
                   failures, pollSends, pollBegins, runs, handleVars,
                   scanVars, selVars, negVars, filtVars>>

\* lines 681-683: the slot is Some and vulkan_app is None: VulkanApp::new is
\* called (the guard stays alive: window borrows from it)
WorkerPollCreate ==
    /\ ProcessAlive /\ wpc = "match" /\ shared_window # NoWindow
    /\ vulkan_app = "None" /\ attempts < MaxAttempts
    /\ pollObserved' = "populated"
    /\ attempts' = attempts + 1
    /\ pollBegins' = pollBegins + 1
    /\ creates' = <<>> /\ images' = 0
    /\ wpc' = "entry_load"
    /\ UNCHANGED <<uiVars, lockVars, vulkan_app, lastResult, failedAt, errLogs, failures,
                   pollSends, runs, live, destroys, owners, scanVars, selVars, negVars, filtVars>>

\* line 702 and the end of the loop body: thread::sleep(1 s), then the guard
\* shared_window goes out of scope
WorkerSleep ==
    /\ ProcessAlive /\ wpc = "sleep"
    /\ lockHolder' = "none"
    /\ wpc' = "lock"
    /\ UNCHANGED <<uiVars, poisoned, vulkan_app, attempts, lastResult, failedAt, errLogs,
                   failures, pollObserved, pollSends, pollBegins, runs,
                   handleVars, scanVars, selVars, negVars, filtVars>>


(***************************************************************************)
(* The driver enumerations the selection is run on.                        *)
(***************************************************************************)
SelFamilies == {Family(1, g, p) : g \in BOOLEAN, p \in {"yes", "no"}}

\* devices whose queries succeed, with no or one non-empty queue family
SelDevices ==
    {Device(e, "ok", f, m, fams) :
        e \in {"yes", "no"}, f \in {"some", "none"}, m \in {"some", "none"},
        fams \in {<<>>} \cup {<<fam>> : fam \in SelFamilies}}

DeviceLists == SeqsUpTo(SelDevices, MaxDevices)

\* the enumerations the pipeline's own selection meets: no device or one
PipelineDeviceLists == {<<>>} \cup {<<d>> : d \in SelDevices}

(***************************************************************************)
(* VulkanApp::new (main.rs:162-211), one action per stage.  A stage that   *)
(* returns Err through ? ends new with that error; a stage that panics     *)
(* (unwrap, expect, panic!) unwinds the worker thread, which drops the     *)
(* mutex guard and poisons the mutex.  Nothing destroys the handles made   *)
(* so far: ash handles have no Drop, and no VulkanApp exists yet.          *)
(***************************************************************************)
\* a create call made from the UI thread
Created_on_ui_thread(h) ==
    /\ live' = live \cup {h}
    /\ creates' = Append(creates, h)
    /\ owners' = owners \cup {<<"create", "ui">>}

\* the call create_<kind> succeeded: the handle exists from now on
Created(h) ==
    /\ live' = live \cup {h}
    /\ creates' = Append(creates, h)
    /\ owners' = owners \cup {<<"create", "worker">>}

\* lines 684-692 of main: new returned Err(err): log::error!, vulkan_app = None
ReturnErr ==
    /\ lastResult' = "err"
    /\ failedAt' = wpc
    /\ errLogs' = errLogs + 1
    /\ failures' = failures + 1
    /\ vulkan_app' = "None"
    /\ wpc' = "sleep"
    /\ UNCHANGED <<lockVars, attempts, pollObserved, pollSends, pollBegins, runs>>

\* a panic inside new: the thread unwinds while it holds the guard
Panic ==
    /\ lastResult' = "panic"
    /\ failedAt' = wpc
    /\ failures' = failures + 1
    /\ wpc' = "panicked"
    /\ lockHolder' = "none"
    /\ poisoned' = TRUE
    /\ UNCHANGED <<vulkan_app, attempts, errLogs, pollObserved, pollSends,
                   pollBegins, runs>>

\* the stage returned its value: on to the next stage
Advance(next) ==
    /\ wpc' = next
    /\ UNCHANGED <<lockVars, vulkan_app, attempts, lastResult, failedAt, errLogs, failures,
                   pollObserved, pollSends, pollBegins, runs>>

\* line 164: Entry::load()?
NewEntryLoad(ok) ==
    /\ ProcessAlive /\ wpc = "entry_load"
    /\ IF ok THEN Advance("create_instance") ELSE ReturnErr
    /\ UNCHANGED <<uiVars, handleVars, scanVars, selVars, negVars, filtVars>>

\* line 166 and main.rs create_instance (217-255): out is "panic"
\* (debug::check_validation_layer_support: a required layer is missing or the
\* layer query failed), "err" (display_handle or create_instance failed) or "ok"
NewCreateInstance(out) ==
    /\ ProcessAlive /\ wpc = "create_instance"
    /\ CASE out = "ok" ->
              Advance("debug_messenger") /\ Created(Handle("instance", 0, attempts))
         [] out = "err" -> ReturnErr /\ UNCHANGED <<live, creates, owners>>
         [] out = "panic" -> Panic /\ UNCHANGED <<live, creates, owners>>
    /\ UNCHANGED <<uiVars, destroys, images, scanVars, selVars, negVars, filtVars>>

\* the stage going on to create_surface when setup_debug_messenger failed
NewSetupDebugMessenger_ignoring_error(ok) ==
    /\ ProcessAlive /\ wpc = "debug_messenger"
    /\ IF ok
       THEN Advance("create_surface") /\ Created(Handle("debug", 0, attempts))
       ELSE Advance("create_surface") /\ UNCHANGED <<live, creates, owners>>
    /\ UNCHANGED <<uiVars, destroys, images, scanVars, selVars, negVars, filtVars>>

\* line 168 and debug.rs setup_debug_messenger (116-142)
NewSetupDebugMessenger(ok) ==
    /\ ProcessAlive /\ wpc = "debug_messenger"
    /\ IF ok
       THEN Advance("create_surface") /\ Created(Handle("debug", 0, attempts))
       ELSE ReturnErr /\ UNCHANGED <<live, creates, owners>>
    /\ UNCHANGED <<uiVars, destroys, images, scanVars, selVars, negVars, filtVars>>

\* line 170 and main.rs create_surface (579-599)
NewCreateSurface(ok) ==
    /\ ProcessAlive /\ wpc = "create_surface"
    /\ IF ok
       THEN Advance("pick_physical_device") /\ Created(Handle("surface", 0, attempts))
       ELSE ReturnErr /\ UNCHANGED <<live, creates, owners>>
    /\ UNCHANGED <<uiVars, destroys, images, scanVars, selVars, negVars, filtVars>>

\* line 172: Self::pick_physical_device on the driver's enumeration ds
NewPickPhysicalDevice(enumOk, ds) ==
    /\ ProcessAlive /\ wpc = "pick_physical_device"
    /\ IF main_pick_physical_device(enumOk, ds).tag = "ok"
       THEN Advance("create_device")
       ELSE Panic
    /\ UNCHANGED <<uiVars, handleVars, scanVars, selVars, negVars, filtVars>>

\* lines 174-180 and create_logical_device_with_graphics_queue (360-409):
\* create_device(..).expect(..)
NewCreateLogicalDevice(ok) ==
    /\ ProcessAlive /\ wpc = "create_device"
    /\ IF ok
       THEN Advance("create_swapchain") /\ Created(Handle("device", 0, attempts))
       ELSE Panic /\ UNCHANGED <<live, creates, owners>>
    /\ UNCHANGED <<uiVars, destroys, images, scanVars, selVars, negVars, filtVars>>

\* lines 182-189 and create_swapchain_and_images (411-498): out is
\* "panic_before" (SwapChainSupportDetails::new or create_swapchain failed),
\* "panic_after" (get_swapchain_images failed, the swap chain exists) or "ok"
\* with n images
NewCreateSwapchain(out, n) ==
    /\ ProcessAlive /\ wpc = "create_swapchain"
    /\ CASE out = "ok" ->
              /\ Advance("create_image_views")
              /\ Created(Handle("swapchain", 0, attempts))
              /\ images' = n
         [] out = "panic_after" ->
              /\ Panic
              /\ Created(Handle("swapchain", 0, attempts))
              /\ UNCHANGED images
         [] out = "panic_before" ->
              Panic /\ UNCHANGED <<live, creates, owners, images>>
    /\ UNCHANGED <<uiVars, destroys, scanVars, selVars, negVars, filtVars>>

\* line 191 and create_swapchain_image_views (544-577), then Ok(Self{..}):
\* k views are created, one per image in image order; create_image_view of
\* image k+1 fails (unwrap panics) unless k = images.  With every view made,
\* new returns Ok(app) and the loop stores Some(app).
NewCreateImageViews(k) ==
    /\ ProcessAlive /\ wpc = "create_image_views"
    /\ k \in 0..images
    /\ live' = live \cup {Handle("view", i, attempts) : i \in 1..k}
    /\ creates' = creates \o [i \in 1..k |-> Handle("view", i, attempts)]
    /\ owners' = IF k > 0 THEN owners \cup {<<"create", "worker">>} ELSE owners
    /\ IF k = images
       THEN /\ vulkan_app' = "Some"
            /\ lastResult' = "ok"
            /\ UNCHANGED failedAt
            /\ wpc' = "sleep"
            /\ UNCHANGED <<lockVars, attempts, errLogs, failures, pollObserved,
                           pollSends, pollBegins, runs>>
       ELSE Panic
    /\ UNCHANGED <<uiVars, destroys, images, scanVars, selVars, negVars, filtVars>>

(***************************************************************************)
(* impl Drop for VulkanApp (main.rs:602-617) and the end of the thread.    *)
(***************************************************************************)
\* the handle of the given kind among the created ones
HandleOf(made, kind) == CHOOSE h \in Range(made) : h.kind = kind

\* drop with the device destroyed before the swap chain that lives on it
drop_device_first(made) ==
    SelectSeq2(made, {"view"}) \o
    <<HandleOf(made, "device"), HandleOf(made, "swapchain"),
      HandleOf(made, "surface"), HandleOf(made, "debug"),
      HandleOf(made, "instance")>>

\* the destroy calls of drop, in order, for the app built from the create
\* calls made: swapchain_image_views.iter() (the order they were pushed in),
\* then swap chain, device, surface, debug messenger, instance
drop(made) ==
    SelectSeq2(made, {"view"}) \o
    <<HandleOf(made, "swapchain"), HandleOf(made, "device"),
      HandleOf(made, "surface"), HandleOf(made, "debug"),
      HandleOf(made, "instance")>>

\* the end of the thread with the app run and never dropped
WorkerRun_without_drop ==
    /\ ProcessAlive /\ wpc = "run"
    /\ IF vulkan_app = "Some"
       THEN runs' = runs + 1 /\ UNCHANGED <<destroys, live, owners>>
       ELSE UNCHANGED <<runs, destroys, live, owners>>
    /\ wpc' = "done"
    /\ UNCHANGED <<uiVars, lockVars, vulkan_app, attempts, lastResult, failedAt, errLogs,
                   failures, pollObserved, pollSends, pollBegins, creates,
                   images, scanVars, selVars, negVars, filtVars>>

\* lines 705-718: after the loop, app.run() and the closure ends: vulkan_app
\* goes out of scope and is dropped
WorkerRun ==
    /\ ProcessAlive /\ wpc = "run"
    /\ IF vulkan_app = "Some"
       THEN /\ runs' = runs + 1
            /\ destroys' = drop(creates)
            /\ live' = live \ Range(drop(creates))
            /\ owners' = owners \cup {<<"destroy", "worker">>}
       ELSE UNCHANGED <<runs, destroys, live, owners>>
    /\ wpc' = "done"
    /\ UNCHANGED <<uiVars, lockVars, vulkan_app, attempts, lastResult, failedAt, errLogs,
                   failures, pollObserved, pollSends, pollBegins, creates,
                   images, scanVars, selVars, negVars, filtVars>>

WorkerNext ==
    \/ WorkerLock
    \/ \E sent \in BOOLEAN : WorkerPollEmpty(sent)
    \/ WorkerPollBreak
    \/ WorkerPollCreate
    \/ WorkerSleep
    \/ \E ok \in BOOLEAN : NewEntryLoad(ok)
    \/ \E out \in {"ok", "err", "panic"} : NewCreateInstance(out)
    \/ \E ok \in BOOLEAN : NewSetupDebugMessenger(ok)
    \/ \E ok \in BOOLEAN : NewCreateSurface(ok)
    \/ \E enumOk \in BOOLEAN, ds \in PipelineDeviceLists :
          NewPickPhysicalDevice(enumOk, ds)
    \/ \E ok \in BOOLEAN : NewCreateLogicalDevice(ok)
    \/ \E out \in {"ok", "panic_before", "panic_after"}, n \in 1..MaxImages :
          NewCreateSwapchain(out, n)
    \/ \E k \in 0..MaxImages : NewCreateImageViews(k)
    \/ WorkerRun

UINext ==
    \/ \E made \in BOOLEAN : resumed(made)
    \/ user_event
    \/ user_event_publish

Next == WorkerNext \/ UINext

Spec == Init /\ [][Next]_vars


(***************************************************************************)
(* The same program with the scheduling made explicit: both threads keep   *)
(* taking steps (the OS schedules each runnable thread), and the event     *)
(* loop stays open, so send_event delivers.  std::sync::Mutex promises no  *)
(* fairness between lockers, so the fairness is weak: a thread blocked in  *)
(* lock() proceeds only if the mutex stays free until it runs.             *)
(***************************************************************************)
FairWorkerNext ==
    \/ WorkerLock
    \/ WorkerPollEmpty(TRUE)
    \/ WorkerPollBreak
    \/ WorkerPollCreate
    \/ WorkerSleep
    \/ \E ok \in BOOLEAN : NewEntryLoad(ok)
    \/ \E out \in {"ok", "err", "panic"} : NewCreateInstance(out)
    \/ \E ok \in BOOLEAN : NewSetupDebugMessenger(ok)
    \/ \E ok \in BOOLEAN : NewCreateSurface(ok)
    \/ \E enumOk \in BOOLEAN, ds \in PipelineDeviceLists :
          NewPickPhysicalDevice(enumOk, ds)
    \/ \E ok \in BOOLEAN : NewCreateLogicalDevice(ok)
    \/ \E out \in {"ok", "panic_before", "panic_after"}, n \in 1..MaxImages :
          NewCreateSwapchain(out, n)
    \/ \E k \in 0..MaxImages : NewCreateImageViews(k)
    \/ WorkerRun

FairNext == FairWorkerNext \/ UINext

FairSpec ==
    Init /\ [][FairNext]_vars /\ WF_vars(FairWorkerNext) /\ WF_vars(UINext)

(***************************************************************************)
(* The queue-family scans of main.rs and util.rs run on one device.        *)
(***************************************************************************)
ScanFamilySet ==
    {Family(c, g, p) : c \in 0..1, g \in BOOLEAN, p \in {"yes", "no", "err"}}

ScanInit ==
    /\ HandoffInit /\ SelOff /\ NegOff /\ FiltOff
    /\ scanPc = "start"
    /\ scanFamilies \in SeqsUpTo(ScanFamilySet, MaxFamilies)
    /\ scanMain = <<>> /\ scanUtil = <<>>

\* main.rs find_queue_families on the device
ScanMain ==
    /\ scanPc = "start"
    /\ scanMain' = find_queue_families(scanFamilies)
    /\ scanPc' = "main_done"
    /\ UNCHANGED <<handoffVars, negVars, filtVars, scanFamilies, scanUtil, selVars>>

\* util.rs devices_queue_family_support on the list holding only the device
ScanUtil ==
    /\ scanPc = "main_done"
    /\ scanUtil' = devices_queue_family_support(
                      <<Device("yes", "ok", "some", "some", scanFamilies)>>, <<1>>)
    /\ scanPc' = "done"
    /\ UNCHANGED <<handoffVars, negVars, filtVars, scanFamilies, scanMain, selVars>>

ScanNext == ScanMain \/ ScanUtil

ScanSpec == ScanInit /\ [][ScanNext]_vars

(***************************************************************************)
(* Device selection run on one driver enumeration: main.rs                 *)
(* pick_physical_device once, and the util.rs filters followed by          *)
(* pick_physical_device twice on the same DeviceMap contents.              *)
(***************************************************************************)
\* the util.rs filters chained in the order their comments require
\* (util.rs:304-306, 367-369): enumeration, extension support, swap-chain
\* adequacy, queue-family support
util_select_devices(enumOk, ds) ==
    LET all == physical_devices(enumOk, ds)
        ext == IF all.tag = "ok" THEN devices_extension_support(ds, all.val) ELSE Err
        adq == IF ext.tag = "ok" THEN devices_swapchain_adequate(ds, ext.val) ELSE Err
    IN IF adq.tag = "ok" THEN devices_queue_family_support(ds, adq.val) ELSE Err

SelInit ==
    /\ HandoffInit /\ ScanOff /\ NegOff /\ FiltOff
    /\ selPc = "start"
    /\ devs \in DeviceLists
    /\ selMain = <<>> /\ selMap = <<>> /\ selUtil = <<>> /\ selQueries = <<>>

\* main.rs pick_physical_device on the enumeration
SelMainPick ==
    /\ selPc = "start"
    /\ selMain' = main_pick_physical_device(TRUE, devs)
    /\ selQueries' = main_pick_queries(TRUE, devs)
    /\ selPc' = "main_done"
    /\ UNCHANGED <<handoffVars, negVars, filtVars, scanVars, devs, selMap, selUtil>>

\* the util.rs filters on the enumeration
SelUtilFilter ==
    /\ selPc = "main_done"
    /\ selMap' = util_select_devices(TRUE, devs)
    /\ selPc' = "filtered"
    /\ UNCHANGED <<handoffVars, negVars, filtVars, scanVars, devs, selMain, selUtil,
                   selQueries>>

\* util.rs pick_physical_device on the DeviceMap, once per run
SelUtilPick ==
    /\ selPc = "filtered" /\ selMap.tag = "ok"
    /\ \E r \in pick_physical_device(selMap.val) :
          selUtil' = Append(selUtil, r)
    /\ selPc' = IF Len(selUtil) = 1 THEN "done" ELSE "filtered"
    /\ UNCHANGED <<handoffVars, negVars, filtVars, scanVars, devs, selMain, selMap,
                   selQueries>>

SelNext == SelMainPick \/ SelUtilFilter \/ SelUtilPick

SelSpec == SelInit /\ [][SelNext]_vars


(***************************************************************************)
(* Logical-device and swap-chain negotiation.  The steps of main.rs        *)
(* (compiled into the binary) and their Result-returning counterparts in   *)
(* vulkan_create.rs and util.rs, each as a function of the driver's        *)
(* answers.  A result is [tag |-> "ok", val |-> ...], [tag |-> "err"] or   *)
(* [tag |-> "panic"].                                                      *)
(***************************************************************************)
\* formats of a surface the negotiation looks at
MaxFormats == 3
\* present modes of a surface
MaxModes == 3
\* largest min_image_count / max_image_count below u32::MAX
MaxImageCount == 3
\* layers the driver lists
MaxLayers == 2
\* extensions the windowing platform requires for a display handle
MaxPlatformExtensions == 2

\* u32::MAX.  The word is narrowed to 16 bits (TLC integers are 32-bit
\* signed); the code only compares these values and adds 1 to one of them,
\* so the narrowing keeps every branch and the wrap at the largest value.
MAX_U32 == 65535
WIDTH == 800
HEIGHT == 600
util_WIDTH == 800
util_HEIGHT == 600

Max(a, b) == IF a >= b THEN a ELSE b

Panicked == [tag |-> "panic"]

RECURSIVE dedup(_)
\* Vec::dedup: removes consecutive repeated elements
dedup(s) ==
    IF Len(s) <= 1 THEN s
    ELSE IF s[1] = s[2] THEN dedup(Tail(s))
    ELSE <<s[1]>> \o dedup(Tail(s))

\* let queue_priorities = [1.0f32]: one queue, priority 1.0 (in tenths: 10)
queue_priorities == <<10>>

\* the for loop over queue_indices: one DeviceQueueCreateInfo per index
queue_create_infos(queue_indices) ==
    [i \in DOMAIN queue_indices |->
        [queue_family_index |-> queue_indices[i],
         queue_priorities |-> queue_priorities]]

\* the queue requests built without dedup()
create_logical_device_with_graphics_queue_no_dedup(graphics, present) ==
    IF graphics = None \/ present = None THEN Panicked
    ELSE Ok(queue_create_infos(<<graphics, present>>))

\* main.rs VulkanApp::create_logical_device_with_graphics_queue, up to the
\* queue requests; graphics, present: what find_queue_families returned
create_logical_device_with_graphics_queue(graphics, present) ==
    IF graphics = None \/ present = None THEN Panicked
    ELSE Ok(queue_create_infos(dedup(<<graphics, present>>)))

\* vulkan_create.rs logical_device_with_graphics_queue, up to the queue
\* requests
logical_device_with_graphics_queue(device_details) ==
    Ok(queue_create_infos(dedup(<<device_details.graphics_queue_index,
                                  device_details.present_queue_index>>)))

\* the sharing settings with the guard of the first match arm inverted
swap_chain_create_info_concurrent_when_equal(graphics, present) ==
    IF graphics = None \/ present = None THEN Panicked
    ELSE IF graphics = present
         THEN Ok([image_sharing_mode |-> "CONCURRENT",
                  queue_family_indices |-> <<graphics, present>>])
         ELSE Ok([image_sharing_mode |-> "EXCLUSIVE",
                  queue_family_indices |-> <<>>])

\* main.rs create_swapchain_and_images: the sharing settings of
\* swap_chain_create_info.  families_indices unwraps both indices before the
\* match, so its arm _ => panic!() is never reached.
swap_chain_create_info(graphics, present) ==
    IF graphics = None \/ present = None THEN Panicked
    ELSE IF graphics # present
         THEN Ok([image_sharing_mode |-> "CONCURRENT",
                  queue_family_indices |-> <<graphics, present>>])
         ELSE Ok([image_sharing_mode |-> "EXCLUSIVE",
                  queue_family_indices |-> <<>>])

\* vulkan_create.rs swapchain_and_images: the sharing settings of
\* swapchain_create_info
swapchain_create_info(device_details) ==
    LET families_indices == <<device_details.graphics_queue_index,
                              device_details.present_queue_index>>
    IN IF device_details.graphics_queue_index # device_details.present_queue_index
       THEN Ok([image_sharing_mode |-> "CONCURRENT",
                queue_family_indices |-> families_indices])
       ELSE Ok([image_sharing_mode |-> "EXCLUSIVE",
                queue_family_indices |-> <<>>])

\* main.rs create_swapchain_and_images: let image_count = { .. } (the block
\* of vulkan_create.rs:181-188 is the same).  u32 addition: with overflow
\* checks (debug profile) min_image_count + 1 panics at u32::MAX, without
\* them it wraps.
image_count(min_image_count, max, overflow_checks) ==
    IF min_image_count + 1 > MAX_U32 /\ overflow_checks THEN Panicked
    ELSE LET preferred == (min_image_count + 1) % (MAX_U32 + 1)
         IN Ok(IF max > 0 /\ preferred > max THEN max ELSE preferred)

SurfaceFormatKHR(f, c) == [format |-> f, color_space |-> c]

RECURSIVE find_preferred_format(_, _)
\* available_formats.iter().find(..) from position i on: the position of the
\* first (B8G8R8A8_UNORM, SRGB_NONLINEAR) entry, 0 if there is none
find_preferred_format(available_formats, i) ==
    IF i > Len(available_formats) THEN 0
    ELSE IF /\ available_formats[i].format = "B8G8R8A8_UNORM"
            /\ available_formats[i].color_space = "SRGB_NONLINEAR"
         THEN i
         ELSE find_preferred_format(available_formats, i + 1)

\* the format choice that looks for the preferred pair at the head only
choose_swapchain_surface_format_head_only(available_formats) ==
    IF Len(available_formats) = 1 /\ available_formats[1].format = "UNDEFINED"
    THEN Ok(SurfaceFormatKHR("B8G8R8A8_UNORM", "SRGB_NONLINEAR"))
    ELSE IF Len(available_formats) = 0 THEN Panicked
    ELSE Ok(available_formats[1])

\* main.rs VulkanApp::choose_swapchain_surface_format.  The argument of
\* unwrap_or, &available_formats[0], is evaluated first: an empty list panics.
choose_swapchain_surface_format(available_formats) ==
    IF Len(available_formats) = 1 /\ available_formats[1].format = "UNDEFINED"
    THEN Ok(SurfaceFormatKHR("B8G8R8A8_UNORM", "SRGB_NONLINEAR"))
    ELSE IF Len(available_formats) = 0 THEN Panicked
    ELSE LET found == find_preferred_format(available_formats, 1)
         IN Ok(IF found # 0 THEN available_formats[found]
               ELSE available_formats[1])

\* util.rs SwapChainSupportDetails::choose_swapchain_surface_format
util_choose_swapchain_surface_format(formats) ==
    IF Len(formats) = 1 /\ formats[1].format = "UNDEFINED"
    THEN Ok(SurfaceFormatKHR("B8G8R8A8_UNORM", "SRGB_NONLINEAR"))
    ELSE IF Len(formats) = 0 THEN Panicked
    ELSE LET found == find_preferred_format(formats, 1)
         IN Ok(IF found # 0 THEN formats[found] ELSE formats[1])

\* the present-mode choice that asks for FIFO before MAILBOX
choose_swapchain_surface_present_mode_fifo_first(available_present_modes) ==
    IF "FIFO" \in Range(available_present_modes) THEN "FIFO"
    ELSE IF "MAILBOX" \in Range(available_present_modes) THEN "MAILBOX"
    ELSE "IMMEDIATE"

\* main.rs VulkanApp::choose_swapchain_surface_present_mode
choose_swapchain_surface_present_mode(available_present_modes) ==
    IF "MAILBOX" \in Range(available_present_modes) THEN "MAILBOX"
    ELSE IF "FIFO" \in Range(available_present_modes) THEN "FIFO"
    ELSE "IMMEDIATE"

\* util.rs SwapChainSupportDetails::choose_swapchain_surface_present_mode
util_choose_swapchain_surface_present_mode(present_modes) ==
    IF "MAILBOX" \in Range(present_modes) THEN "MAILBOX"
    ELSE IF "FIFO" \in Range(present_modes) THEN "FIFO"
    ELSE "IMMEDIATE"

Extent2D(w, h) == [width |-> w, height |-> h]

\* main.rs VulkanApp::choose_swapchain_extent
choose_swapchain_extent(capabilities) ==
    IF capabilities.current_extent.width # MAX_U32
    THEN capabilities.current_extent
    ELSE LET min == capabilities.min_image_extent
             max == capabilities.max_image_extent
             width == Max(Min(WIDTH, max.width), min.width)
             height == Max(Min(HEIGHT, max.height), min.height)
         IN Extent2D(width, height)

\* util.rs SwapChainSupportDetails::choose_swapchain_extent
util_choose_swapchain_extent(capabilities) ==
    IF capabilities.current_extent.width # MAX_U32
    THEN capabilities.current_extent
    ELSE LET min == capabilities.min_image_extent
             max == capabilities.max_image_extent
             width == Max(Min(util_WIDTH, max.width), min.width)
             height == Max(Min(util_HEIGHT, max.height), min.height)
         IN Extent2D(width, height)

\* the required validation layers (debug.rs:8, util.rs:15)
REQUIRED_LAYERS == <<"VK_LAYER_KHRONOS_validation">>

RECURSIVE debug_check_from(_, _, _)
\* the loop of debug.rs check_validation_layer_support from required layer i
\* on: it panics at the first required layer the driver does not list
debug_check_from(enumOk, layers, i) ==
    IF i > Len(REQUIRED_LAYERS) THEN Ok(<<>>)
    ELSE IF ~enumOk THEN [tag |-> "panic", named |-> <<>>]
    ELSE IF REQUIRED_LAYERS[i] \notin Range(layers)
         THEN [tag |-> "panic", named |-> <<REQUIRED_LAYERS[i]>>]
         ELSE debug_check_from(enumOk, layers, i + 1)

\* debug.rs check_validation_layer_support; enumOk:
\* enumerate_instance_layer_properties answered; named: the layers the
\* panic message names
debug_check_validation_layer_support(enumOk, layers) ==
    debug_check_from(enumOk, layers, 1)

\* util.rs check_validation_layer_support; named: the layers the error
\* message lists
check_validation_layer_support(enumOk, layers) ==
    IF ~enumOk THEN [tag |-> "err", named |-> <<>>]
    ELSE LET missing_layers ==
                SelectSeq(REQUIRED_LAYERS, LAMBDA l : l \notin Range(layers))
         IN IF missing_layers = <<>> THEN Ok(<<>>)
            ELSE [tag |-> "err", named |-> missing_layers]

\* main.rs VulkanApp::create_instance: the layer check, the display handle,
\* then entry.create_instance.  check: how the layer check ended;
\* attempted: entry.create_instance was called.
create_instance(enumOk, layers, displayOk, createOk) ==
    LET check == debug_check_validation_layer_support(enumOk, layers)
    IN IF check.tag = "panic"
       THEN [tag |-> "panic", check |-> check, attempted |-> FALSE]
       ELSE IF ~displayOk
       THEN [tag |-> "err", check |-> check, attempted |-> FALSE]
       ELSE [tag |-> IF createOk THEN "ok" ELSE "err",
             check |-> check, attempted |-> TRUE]

\* get_extension_names that forgets the debug extension after the platform's
get_extension_names_without_debug(display_handle) ==
    IF display_handle.some
    THEN IF display_handle.required.tag = "err" THEN Err
         ELSE Ok(Append(display_handle.required.val, "VK_KHR_surface"))
    ELSE Ok(<<"VK_KHR_surface", "VK_EXT_debug_utils">>)

\* util.rs get_extension_names.  display_handle: Option<RawDisplayHandle>;
\* required: what ash_window::enumerate_required_extensions answers for the
\* handle (Ok of a list of names, or Err)
get_extension_names(display_handle) ==
    IF display_handle.some
    THEN IF display_handle.required.tag = "err" THEN Err
         ELSE Ok(Append(Append(display_handle.required.val, "VK_KHR_surface"),
                        "VK_EXT_debug_utils"))
    ELSE Ok(<<"VK_KHR_surface", "VK_EXT_debug_utils">>)

(***************************************************************************)
(* One negotiation step run on one input drawn from the driver's possible  *)
(* answers.                                                                *)
(***************************************************************************)
\* a family index, or None where find_queue_families found no family
OptionIndices == {None} \cup (0..(MaxFamilies - 1))

Formats == {"UNDEFINED", "B8G8R8A8_UNORM", "R8G8B8A8_UNORM"}
ColorSpaces == {"SRGB_NONLINEAR", "EXTENDED_SRGB_LINEAR_EXT"}
SurfaceFormats == {SurfaceFormatKHR(f, c) : f \in Formats, c \in ColorSpaces}
PresentModes == {"IMMEDIATE", "MAILBOX", "FIFO", "FIFO_RELAXED"}
Widths == {400, 640, 800, 1920, MAX_U32}
Heights == {300, 480, 600, 1080, MAX_U32}
Extents == {Extent2D(w, h) : w \in Widths, h \in Heights}
ImageCounts == (0..MaxImageCount) \cup {MAX_U32}
LayerNames == {"VK_LAYER_KHRONOS_validation", "VK_LAYER_LUNARG_api_dump"}
PlatformExtensions ==
    {"VK_KHR_surface", "VK_KHR_xlib_surface", "VK_KHR_wayland_surface"}
\* no display handle, or one with the platform's answer for it
DisplayHandles ==
    {[some |-> FALSE]}
    \cup {[some |-> TRUE, required |-> r] :
            r \in {Err} \cup {Ok(l) : l \in SeqsUpTo(PlatformExtensions,
                                                    MaxPlatformExtensions)}}

NegInputs ==
    {[kind |-> k, graphics |-> g, present |-> p] :
        k \in {"queues", "sharing"}, g \in OptionIndices, p \in OptionIndices}
    \cup {[kind |-> "format", formats |-> l] :
            l \in SeqsUpTo(SurfaceFormats, MaxFormats)}
    \cup {[kind |-> "present_mode", present_modes |-> l] :
            l \in SeqsUpTo(PresentModes, MaxModes)}
    \cup {[kind |-> "extent",
           capabilities |-> [current_extent |-> c, min_image_extent |-> mn,
                             max_image_extent |-> mx]] :
            c \in Extents, mn \in Extents, mx \in Extents}
    \cup {[kind |-> "image_count", min_image_count |-> mn,
           max_image_count |-> mx, overflow_checks |-> b] :
            mn \in ImageCounts, mx \in ImageCounts, b \in BOOLEAN}
    \cup {[kind |-> "layers", enumOk |-> e, layers |-> l,
           displayOk |-> d, createOk |-> c] :
            e \in BOOLEAN, l \in SeqsUpTo(LayerNames, MaxLayers),
            d \in BOOLEAN, c \in BOOLEAN}
    \cup {[kind |-> "extensions", display_handle |-> h] : h \in DisplayHandles}

NegInit ==
    /\ HandoffInit /\ ScanOff /\ SelOff /\ FiltOff
    /\ negPc = "start"
    /\ negIn \in NegInputs
    /\ negMain = <<>> /\ negLib = <<>>

\* the DeviceDetails of the input; util.rs builds one only with both indices
NoDetails == [tag |-> "no_details"]
DeviceDetails(in) ==
    [graphics_queue_index |-> in.graphics, present_queue_index |-> in.present]
HasDetails(in) == in.graphics # None /\ in.present # None

NegDone ==
    /\ negPc' = "done"
    /\ UNCHANGED <<handoffVars, scanVars, selVars, filtVars, negIn>>

\* the queue requests of the logical device
NegQueueRequests ==
    /\ negPc = "start" /\ negIn.kind = "queues"
    /\ negMain' = create_logical_device_with_graphics_queue(
                      negIn.graphics, negIn.present)
    /\ negLib' = IF HasDetails(negIn)
                 THEN logical_device_with_graphics_queue(DeviceDetails(negIn))
                 ELSE NoDetails
    /\ NegDone

\* the sharing settings of the swap chain
NegSharing ==
    /\ negPc = "start" /\ negIn.kind = "sharing"
    /\ negMain' = swap_chain_create_info(negIn.graphics, negIn.present)
    /\ negLib' = IF HasDetails(negIn)
                 THEN swapchain_create_info(DeviceDetails(negIn))
                 ELSE NoDetails
    /\ NegDone

NegFormat ==
    /\ negPc = "start" /\ negIn.kind = "format"
    /\ negMain' = choose_swapchain_surface_format(negIn.formats)
    /\ negLib' = util_choose_swapchain_surface_format(negIn.formats)
    /\ NegDone

NegPresentMode ==
    /\ negPc = "start" /\ negIn.kind = "present_mode"
    /\ negMain' = choose_swapchain_surface_present_mode(negIn.present_modes)
    /\ negLib' = util_choose_swapchain_surface_present_mode(negIn.present_modes)
    /\ NegDone

NegExtent ==
    /\ negPc = "start" /\ negIn.kind = "extent"
    /\ negMain' = choose_swapchain_extent(negIn.capabilities)
    /\ negLib' = util_choose_swapchain_extent(negIn.capabilities)
    /\ NegDone

NegImageCount ==
    /\ negPc = "start" /\ negIn.kind = "image_count"
    /\ negMain' = image_count(negIn.min_image_count, negIn.max_image_count,
                              negIn.overflow_checks)
    /\ negLib' = image_count(negIn.min_image_count, negIn.max_image_count,
                             negIn.overflow_checks)
    /\ NegDone

\* the layer check: create_instance of main.rs, and the check of util.rs
NegLayers ==
    /\ negPc = "start" /\ negIn.kind = "layers"
    /\ negMain' = create_instance(negIn.enumOk, negIn.layers, negIn.displayOk,
                                  negIn.createOk)
    /\ negLib' = check_validation_layer_support(negIn.enumOk, negIn.layers)
    /\ NegDone

\* the instance extension list; main.rs has no copy of the function
NegExtensions ==
    /\ negPc = "start" /\ negIn.kind = "extensions"
    /\ negLib' = get_extension_names(negIn.display_handle)
    /\ negMain' = NoDetails
    /\ NegDone

NegNext ==
    \/ NegQueueRequests \/ NegSharing \/ NegFormat \/ NegPresentMode
    \/ NegExtent \/ NegImageCount \/ NegLayers \/ NegExtensions

NegSpec == NegInit /\ [][NegNext]_vars

(***************************************************************************)
(* The util.rs candidate filters run on one driver enumeration: each       *)
(* filter on the whole enumeration, then the extension filter and the      *)
(* swap-chain adequacy filter in both orders, followed by the queue-family *)
(* filter.                                                                 *)
(***************************************************************************)
\* devices with failing queries among them: the extension enumeration, the
\* surface-format query, the present-mode query and the present-support
\* query can each fail
FiltDevices ==
    {Device(e, "ok", fm[1], fm[2], fams) :
        e \in {"yes", "no", "err"},
        fm \in {<<"some", "some">>, <<"none", "some">>, <<"some", "none">>,
                <<"err", "some">>, <<"some", "err">>},
        fams \in {<<>>, <<Family(1, TRUE, "yes")>>, <<Family(1, TRUE, "err")>>}}

NotRun == [tag |-> "not_run"]

FiltInit ==
    /\ HandoffInit /\ ScanOff /\ SelOff /\ NegOff
    /\ filtPc = "start"
    /\ filtDevs \in SeqsUpTo(FiltDevices, MaxDevices)
    /\ filtOut = [ext_all |-> NotRun, adq_all |-> NotRun, qf_all |-> NotRun,
                  ext_adq |-> NotRun, ext_first |-> NotRun,
                  adq_ext |-> NotRun, adq_first |-> NotRun,
                  ext_examined |-> NotRun, adq_examined |-> NotRun,
                  qf_examined |-> NotRun]

\* Between two filters stands the ? operator: the next filter runs on the
\* list the previous one returned, an error is returned as it is.

\* every filter on the whole enumeration
FilterEach ==
    /\ filtPc = "start"
    /\ LET all == physical_devices(TRUE, filtDevs).val
       IN filtOut' = [filtOut EXCEPT
             !.ext_all = devices_extension_support(filtDevs, all),
             !.adq_all = devices_swapchain_adequate(filtDevs, all),
             !.qf_all = devices_queue_family_support(filtDevs, all),
             !.ext_examined = devices_extension_support_examined(filtDevs, all, 1),
             !.adq_examined = devices_swapchain_adequate_examined(filtDevs, all, 1),
             !.qf_examined = devices_queue_family_support_examined(filtDevs, all, 1)]
    /\ filtPc' = "each"
    /\ UNCHANGED <<handoffVars, scanVars, selVars, negVars, filtDevs>>

\* devices_extension_support, devices_swapchain_adequate,
\* devices_queue_family_support
FilterExtensionFirst ==
    /\ filtPc = "each"
    /\ LET all == physical_devices(TRUE, filtDevs).val
           ext == devices_extension_support(filtDevs, all)
           adq == IF ext.tag = "ok"
                 THEN devices_swapchain_adequate(filtDevs, ext.val) ELSE Err
       IN filtOut' = [filtOut EXCEPT
             !.ext_adq = adq,
             !.ext_first =
                 IF adq.tag = "ok"
                 THEN devices_queue_family_support(filtDevs, adq.val) ELSE Err]
    /\ filtPc' = "ext_first"
    /\ UNCHANGED <<handoffVars, scanVars, selVars, negVars, filtDevs>>

\* devices_swapchain_adequate, devices_extension_support,
\* devices_queue_family_support
FilterAdequacyFirst ==
    /\ filtPc = "ext_first"
    /\ LET all == physical_devices(TRUE, filtDevs).val
           adq == devices_swapchain_adequate(filtDevs, all)
           ext == IF adq.tag = "ok"
                 THEN devices_extension_support(filtDevs, adq.val) ELSE Err
       IN filtOut' = [filtOut EXCEPT
             !.adq_ext = ext,
             !.adq_first =
                 IF ext.tag = "ok"
                 THEN devices_queue_family_support(filtDevs, ext.val) ELSE Err]
    /\ filtPc' = "done"
    /\ UNCHANGED <<handoffVars, scanVars, selVars, negVars, filtDevs>>

FiltNext == FilterEach \/ FilterExtensionFirst \/ FilterAdequacyFirst

FiltSpec == FiltInit /\ [][FiltNext]_vars


(***************************************************************************)
(* Properties.                                                             *)
(***************************************************************************)
\* position of handle h in the sequence s
Pos(s, h) == CHOOSE i \in DOMAIN s : s[i] = h

\* the worker has run a successfully built app and dropped it
TornDown == wpc = "done" /\ runs = 1

\* C1 (as claimed): for a successful run the destroy calls at teardown are
\* the create calls in exactly the reverse order, handle by handle.
C1_DestroysReverseCreates == TornDown => destroys = Reverse(creates)

\* C1 (amended): for a successful run every created handle is destroyed
\* exactly once at teardown; no handle is destroyed before a handle of another
\* kind that was created after it (views, swap chain, device, surface, debug
\* sink, connection); the image views among themselves are destroyed in the
\* order they were created.
C1_TeardownOrder ==
    TornDown =>
      /\ Len(destroys) = Len(creates)
      /\ Range(destroys) = Range(creates)
      /\ \A i, j \in DOMAIN destroys :
            i < j =>
              IF destroys[i].kind = destroys[j].kind
              THEN /\ destroys[i].kind = "view"
                   /\ Pos(creates, destroys[i]) < Pos(creates, destroys[j])
              ELSE Pos(creates, destroys[i]) > Pos(creates, destroys[j])
      /\ [i \in 1..5 |-> creates[i].kind] =
            <<"instance", "debug", "surface", "device", "swapchain">>
      /\ \A i \in 6..Len(creates) : creates[i].kind = "view"

\* C1 witness: a torn-down run whose swap chain had two or more images
C1_Witness == TornDown /\ images >= 2 /\ Len(destroys) = images + 5

\* C2: the worker begins pipeline construction (VulkanApp::new) at most once
\* in an execution, also after a failed attempt.
C2_AtMostOneConstruction == attempts <= 1

\* C3: when VulkanApp::new has failed, no handle created by that run is live
\* once the failure is back in the worker loop (or has unwound the worker).
C3_NoLiveHandleAfterFailure ==
    (/\ lastResult \in {"err", "panic"}
     /\ wpc \in {"sleep", "panicked"})
       => {h \in live : h.run = attempts} = {}

\* C4: the worker holds the slot lock only for the read of the slot: not
\* while it sleeps and not while VulkanApp::new runs.
C4_LockOnlyAroundSlotAccess == lockHolder = "worker" => wpc = "match"

\* C5: under weak fairness of both threads, once the UI thread has a window
\* the slot is eventually populated and the worker begins construction.
C5_WindowLeadsToConstruction ==
    (windows # {}) ~> (shared_window # NoWindow /\ attempts >= 1)

\* C6 (as claimed): after the UI thread has handled a request-window signal,
\* and after its resumed callback has run, a window exists and the slot holds
\* a reference to it.
C6_HandledMeansPublished ==
    uiLast \in {"resumed", "user_event"} =>
        windows # {} /\ shared_window \in windows

\* C6 (amended): resumed creates the window if none exists and never writes
\* the slot; a request-window signal handled while a window exists stores that
\* window in the slot when the handler returns; a request-window signal
\* handled while no window exists creates none and leaves the slot as it is.
C6_CallbackEffects ==
    [][/\ (resumed_calls' # resumed_calls /\ uiPc' = "idle") =>
             /\ windows' # {}
             /\ shared_window' = shared_window
             /\ (windows # {} => windows' = windows)
       /\ (events' < events /\ uiPc' = "idle") =>
             /\ windows = {} /\ windows' = {}
             /\ shared_window' = shared_window
       /\ (events' < events /\ uiPc' = "lock_wait") => windows # {}
       /\ (uiPc = "lock_wait" /\ uiPc' = "idle") =>
             /\ windows' = windows
             /\ shared_window' \in windows']_vars

\* C6 witness: resumed has run, and a request signal was handled with the
\* window present and has returned
C6_Witness ==
    /\ uiLast = "user_event" /\ resumed_calls >= 1
    /\ windows # {} /\ shared_window \in windows

\* C7: a poll that sees the slot empty calls send_event exactly once, begins
\* no construction and raises no error whatever send_event answers; after its
\* sleep the worker is back at the head of the loop; construction begins only
\* in a poll that saw the slot populated.
C7_EmptyPoll ==
    [][/\ pollObserved' = "empty" =>
             /\ pollSends' = 1 /\ pollBegins' = 0
             /\ wpc' \in {"sleep", "lock"}
             /\ failures' = 0 /\ errLogs' = 0 /\ ~poisoned'
             /\ attempts' = attempts
       /\ (pollObserved = "empty" /\ wpc = "sleep" /\ wpc' # wpc) => wpc' = "lock"
       /\ attempts' > attempts =>
             /\ pollObserved' = "populated" /\ shared_window # NoWindow
             /\ pollSends' = 0]_vars

\* C7 witness: an empty poll is over (its send_event failed: nothing is queued
\* and the UI thread has handled nothing) and the worker is about to poll again
C7_Witness ==
    /\ pollObserved = "empty" /\ pollSends = 1 /\ wpc = "lock"
    /\ events = 0 /\ uiPc = "idle" /\ uiLast = "none"

\* C8: every failure of device selection, logical-device, swap-chain or
\* image-view creation comes back to the worker loop as an error that is
\* logged with log::error!; no failure ends the worker by a panic or poisons
\* the slot's mutex (which would take the UI thread and the process down).
C8_FailuresAreLoggedErrors ==
    failedAt \in {"pick_physical_device", "create_device", "create_swapchain",
                  "create_image_views"}
      => /\ lastResult = "err"
         /\ wpc # "panicked"
         /\ ~poisoned
         /\ errLogs = failures

\* reference: the device passes the three capability filters and has a
\* graphics family and a present family among its non-empty families
RefSurvives(d) ==
    /\ d.ext = "yes" /\ d.fmts = "some" /\ d.modes = "some"
    /\ \E i \in DOMAIN d.families :
          d.families[i].count > 0 /\ d.families[i].graphics
    /\ \E i \in DOMAIN d.families :
          d.families[i].count > 0 /\ d.families[i].present = "yes"

RefSurvivors(ds) == {i \in DOMAIN ds : RefSurvives(ds[i])}

SetMin(S) == CHOOSE x \in S : \A y \in S : x <= y

\* C9: selection returns the first candidate in enumeration order that
\* survives the filters, fails iff none survives, and two runs on the same
\* enumeration select the same device (main.rs and util.rs).
C9_FirstSurvivorSelected ==
    selPc = "done" =>
      /\ IF RefSurvivors(devs) = {}
         THEN selMain.tag = "panic"
         ELSE selMain.tag = "ok" /\ selMain.dev = SetMin(RefSurvivors(devs))
      /\ \A r \in 1..2 :
            IF DOMAIN selMap.val = {}
            THEN selUtil[r].tag = "err"
            ELSE /\ selUtil[r].tag = "ok"
                 /\ selUtil[r].val.dev = SetMin(DOMAIN selMap.val)
      /\ selUtil[1] = selUtil[2]

\* reference: position among the non-empty families (from 0) of the first one
\* satisfying P, None if there is none
FirstPos(kept, P(_)) ==
    IF \E k \in DOMAIN kept : P(kept[k])
    THEN SetMin({k \in DOMAIN kept : P(kept[k])}) - 1
    ELSE None

IsGraphics(f) == f.graphics
IsPresent(f) == f.present = "yes"

\* C10: the scan skips zero-capacity families and yields the first family
\* with graphics queues and the first family the surface reports present
\* support for; the device is kept iff both are found, also when they are
\* different families (main.rs and util.rs; driver queries that succeed).
C10_ScanFindsBothFamilies ==
    (scanPc = "done" /\ \A i \in DOMAIN scanFamilies : scanFamilies[i].present # "err")
    => LET kept == NonEmptyFamilies(scanFamilies)
           g == FirstPos(kept, IsGraphics)
           p == FirstPos(kept, IsPresent)
       IN /\ scanMain = <<g, p>>
          /\ scanUtil.tag = "ok"
          /\ (1 \in DOMAIN scanUtil.val) <=> (g # None /\ p # None)

\* family index i (numbered over the device's full family list) names a
\* family that exists and has queues
HasQueues(fams, i) == i + 1 \in DOMAIN fams /\ fams[i + 1].count > 0

\* C11: for a selected device graphics_queue_index and present_queue_index
\* are indices into the device's full queue-family list: the family at
\* graphics_queue_index exists, has a nonzero queue count and is
\* graphics-capable; the family at present_queue_index exists, has a nonzero
\* queue count and has present support (main.rs and util.rs).
C11_IndicesNameCapableFamilies ==
    scanPc = "done" =>
      /\ (scanMain[1] # None /\ scanMain[2] # None) =>
            /\ HasQueues(scanFamilies, scanMain[1])
            /\ scanFamilies[scanMain[1] + 1].graphics
            /\ HasQueues(scanFamilies, scanMain[2])
            /\ scanFamilies[scanMain[2] + 1].present = "yes"
      /\ (scanUtil.tag = "ok" /\ 1 \in DOMAIN scanUtil.val) =>
            LET d == scanUtil.val[1]
            IN /\ HasQueues(scanFamilies, d.graphics_queue_index)
               /\ scanFamilies[d.graphics_queue_index + 1].graphics
               /\ HasQueues(scanFamilies, d.present_queue_index)
               /\ scanFamilies[d.present_queue_index + 1].present = "yes"

\* reference: the device supports all required device extensions and has at
\* least one surface format and at least one present mode
PassesFilters(d) == d.ext = "yes" /\ d.fmts = "some" /\ d.modes = "some"

OneRequestPerFamily(requests, graphics, present) ==
    /\ Len(requests) = IF graphics = present THEN 1 ELSE 2
    /\ {requests[i].queue_family_index : i \in DOMAIN requests}
          = {graphics, present}
    /\ \A i, j \in DOMAIN requests :
          requests[i].queue_family_index = requests[j].queue_family_index
             => i = j
    /\ \A i \in DOMAIN requests : requests[i].queue_priorities = <<10>>

\* C13: for every DeviceDetails the logical-device request holds exactly one
\* queue-creation request when graphics_queue_index equals
\* present_queue_index and exactly two, one per family index, when they
\* differ; each asks for one queue with priority 1.0 and no family index
\* appears twice (main.rs and vulkan_create.rs).
C13_OneRequestPerFamily ==
    (negPc = "done" /\ negIn.kind = "queues" /\ HasDetails(negIn)) =>
      /\ negMain.tag = "ok"
      /\ OneRequestPerFamily(negMain.val, negIn.graphics, negIn.present)
      /\ negLib.tag = "ok"
      /\ OneRequestPerFamily(negLib.val, negIn.graphics, negIn.present)

\* one family serves both roles and a single request was built
C13_Witness ==
    /\ negPc = "done" /\ negIn.kind = "queues"
    /\ negIn.graphics # None /\ negIn.graphics = negIn.present
    /\ negMain.tag = "ok" /\ Len(negMain.val) = 1

\* reference: the sharing settings the two family indices call for
SharingFor(graphics, present) ==
    IF graphics # present
    THEN [image_sharing_mode |-> "CONCURRENT",
          queue_family_indices |-> <<graphics, present>>]
    ELSE [image_sharing_mode |-> "EXCLUSIVE", queue_family_indices |-> <<>>]

\* C14: the swap chain is created with concurrent sharing over exactly the
\* two family indices when the graphics and present families differ, and
\* with exclusive sharing and no family list when they are the same; when a
\* family index is missing, creation is aborted as fatal and no sharing mode
\* is chosen (main.rs and vulkan_create.rs).
C14_SharingMode ==
    (negPc = "done" /\ negIn.kind = "sharing") =>
      IF HasDetails(negIn)
      THEN /\ negMain = Ok(SharingFor(negIn.graphics, negIn.present))
           /\ negLib = Ok(SharingFor(negIn.graphics, negIn.present))
      ELSE negMain = Panicked

\* the families differ and concurrent sharing was chosen
C14_Witness ==
    /\ negPc = "done" /\ negIn.kind = "sharing" /\ HasDetails(negIn)
    /\ negIn.graphics # negIn.present
    /\ negMain.tag = "ok" /\ negMain.val.image_sharing_mode = "CONCURRENT"

\* reference: the preferred pair (B8G8R8A8_UNORM, SRGB_NONLINEAR)
PreferredFormat == [format |-> "B8G8R8A8_UNORM", color_space |-> "SRGB_NONLINEAR"]

\* reference: the format the advertised list l calls for
FormatFor(l) ==
    IF Len(l) = 1 /\ l[1].format = "UNDEFINED" THEN PreferredFormat
    ELSE IF \E i \in DOMAIN l : l[i] = PreferredFormat THEN PreferredFormat
    ELSE l[1]

\* C15: for every non-empty advertised list, format negotiation returns
\* (B8G8R8A8_UNORM, SRGB_NONLINEAR) if the list is exactly one entry whose
\* format is UNDEFINED; otherwise that pair if it is in the list at any
\* position, and otherwise the first entry (main.rs and util.rs).
C15_FormatNegotiation ==
    (negPc = "done" /\ negIn.kind = "format" /\ negIn.formats # <<>>) =>
      /\ negMain = Ok(FormatFor(negIn.formats))
      /\ negLib = Ok(FormatFor(negIn.formats))

\* the preferred pair is advertised, not in first place, and was chosen
C15_Witness ==
    /\ negPc = "done" /\ negIn.kind = "format" /\ Len(negIn.formats) = 3
    /\ negIn.formats[1] # PreferredFormat /\ negIn.formats[2] # PreferredFormat
    /\ negIn.formats[3] = PreferredFormat
    /\ negMain = Ok(PreferredFormat)

\* reference: the present mode the advertised set calls for
PresentModeFor(modes) ==
    CASE "MAILBOX" \in modes -> "MAILBOX"
      [] "MAILBOX" \notin modes /\ "FIFO" \in modes -> "FIFO"
      [] OTHER -> "IMMEDIATE"

\* C16: present-mode negotiation returns MAILBOX whenever MAILBOX is
\* advertised, else FIFO whenever FIFO is advertised, else IMMEDIATE,
\* whatever the order of the advertised list; {FIFO, IMMEDIATE} gives FIFO
\* and {IMMEDIATE} gives IMMEDIATE (main.rs and util.rs).
C16_PresentModeNegotiation ==
    (negPc = "done" /\ negIn.kind = "present_mode") =>
      LET modes == Range(negIn.present_modes)
      IN /\ negMain = PresentModeFor(modes)
         /\ negLib = PresentModeFor(modes)
         /\ modes = {"FIFO", "IMMEDIATE"} => negMain = "FIFO" /\ negLib = "FIFO"
         /\ modes = {"IMMEDIATE"} => negMain = "IMMEDIATE" /\ negLib = "IMMEDIATE"

\* MAILBOX is advertised after FIFO and was chosen
C16_Witness ==
    /\ negPc = "done" /\ negIn.kind = "present_mode"
    /\ negIn.present_modes = <<"IMMEDIATE", "FIFO", "MAILBOX">>
    /\ negMain = "MAILBOX"

\* reference: v clamped to the interval [lo, hi]
Clamp(v, lo, hi) == IF v < lo THEN lo ELSE IF v > hi THEN hi ELSE v

\* reference: the extent the capabilities call for, the sentinel being the
\* pair (MAX_U32, MAX_U32)
ExtentFor(caps) ==
    IF caps.current_extent = [width |-> MAX_U32, height |-> MAX_U32]
    THEN [width |-> Clamp(800, caps.min_image_extent.width,
                          caps.max_image_extent.width),
          height |-> Clamp(600, caps.min_image_extent.height,
                           caps.max_image_extent.height)]
    ELSE caps.current_extent

\* C17: when the surface reports the sentinel current extent
\* (MAX_U32, MAX_U32) the negotiated extent is the default window size
\* (800, 600) clamped per dimension to the surface's [min, max] extent; when
\* the current extent is not the sentinel it is the current extent
\* unchanged.  With min (400, 300) and max (1920, 1080) the result is
\* (800, 600); with max (640, 480) it is (640, 480) (main.rs and util.rs;
\* surfaces whose min extent does not exceed their max extent).
C17_ExtentNegotiation ==
    (/\ negPc = "done" /\ negIn.kind = "extent"
     /\ negIn.capabilities.min_image_extent.width
           <= negIn.capabilities.max_image_extent.width
     /\ negIn.capabilities.min_image_extent.height
           <= negIn.capabilities.max_image_extent.height)
    => /\ negMain = ExtentFor(negIn.capabilities)
       /\ negLib = ExtentFor(negIn.capabilities)

\* reference: the image count the capabilities call for
ImageCountFor(min_image_count, max_image_count) ==
    IF max_image_count = 0 \/ min_image_count + 1 <= max_image_count
    THEN min_image_count + 1
    ELSE max_image_count

\* C18: the requested image count is min_image_count + 1 when
\* max_image_count is 0 (unbounded) or min_image_count + 1 <=
\* max_image_count, and max_image_count otherwise; with min_image_count = 2
\* and max_image_count = 2 the count is 2.
C18_ImageCount ==
    (negPc = "done" /\ negIn.kind = "image_count") =>
      /\ negMain = Ok(ImageCountFor(negIn.min_image_count,
                                    negIn.max_image_count))
      /\ negLib = negMain
      /\ (negIn.min_image_count = 2 /\ negIn.max_image_count = 2)
            => negMain = Ok(2)

\* C19: image-view creation makes exactly one view per swap-chain image, in
\* image order; when the creation of a view fails the sequence stops and the
\* views already created in that call are destroyed: none is left live.
C19_ImageViews ==
    /\ (lastResult = "ok" /\ vulkan_app = "Some" /\ destroys = <<>>)
          => SelectSeq2(creates, {"view"})
                = [i \in 1..images |-> Handle("view", i, attempts)]
    /\ failedAt = "create_image_views"
          => {h \in live : h.kind = "view" /\ h.run = attempts} = {}

\* reference: the required layers the driver's list lacks
AbsentLayers(layers) == {l \in Range(REQUIRED_LAYERS) : l \notin Range(layers)}

\* C20: if a required layer is absent from the driver's layer list, the
\* layer check fails with an error that names every absent required layer
\* and connection creation is not attempted; if all required layers are
\* present the check succeeds (the check create_instance calls, and the
\* check of util.rs; the driver's layer query itself succeeds).
C20_LayerCheck ==
    (negPc = "done" /\ negIn.kind = "layers" /\ negIn.enumOk) =>
      IF AbsentLayers(negIn.layers) # {}
      THEN /\ negLib.tag = "err"
           /\ Range(negLib.named) = AbsentLayers(negIn.layers)
           /\ negMain.check.tag = "err"
           /\ Range(negMain.check.named) = AbsentLayers(negIn.layers)
           /\ ~negMain.attempted
      ELSE negLib.tag = "ok" /\ negMain.check.tag = "ok"

\* every filter that returned candidates returned a subset of the
\* candidates it was given
FiltersNarrow ==
    LET all == DOMAIN filtDevs
    IN /\ filtOut.ext_all.tag = "ok" => Range(filtOut.ext_all.val) \subseteq all
       /\ filtOut.adq_all.tag = "ok" => Range(filtOut.adq_all.val) \subseteq all
       /\ filtOut.qf_all.tag = "ok" => DOMAIN filtOut.qf_all.val \subseteq all
       /\ filtOut.ext_adq.tag = "ok"
             => Range(filtOut.ext_adq.val) \subseteq Range(filtOut.ext_all.val)
       /\ filtOut.ext_first.tag = "ok"
             => DOMAIN filtOut.ext_first.val \subseteq Range(filtOut.ext_adq.val)
       /\ filtOut.adq_ext.tag = "ok"
             => Range(filtOut.adq_ext.val) \subseteq Range(filtOut.adq_all.val)
       /\ filtOut.adq_first.tag = "ok"
             => DOMAIN filtOut.adq_first.val \subseteq Range(filtOut.adq_ext.val)

\* C21 (as claimed): each filter returns a subset of its input candidates,
\* and the extension filter and the adequacy filter applied in either order
\* before the queue-family filter give the same final result, for every
\* assignment of capabilities and query outcomes.
C21_FiltersCommute ==
    filtPc = "done" =>
      /\ FiltersNarrow
      /\ filtOut.ext_first = filtOut.adq_first

\* reference: every driver query about the device succeeds
QueriesAnswer(d) ==
    /\ d.ext # "err" /\ d.fmts # "err" /\ d.modes # "err"
    /\ \A i \in DOMAIN d.families : d.families[i].present # "err"

\* C21 (amended): each filter that returns candidates returns a subset of
\* its input, and the two orders give the same final candidate set whenever
\* both return one, as they do when every driver query succeeds.
C21_FiltersCommuteWhenAnswered ==
    filtPc = "done" =>
      /\ FiltersNarrow
      /\ (filtOut.ext_first.tag = "ok" /\ filtOut.adq_first.tag = "ok")
            => filtOut.ext_first = filtOut.adq_first
      /\ (\A i \in DOMAIN filtDevs : QueriesAnswer(filtDevs[i]))
            => filtOut.ext_first.tag = "ok" /\ filtOut.adq_first.tag = "ok"

\* both orders ran on two devices, dropped the first for its extensions and
\* kept the second
C21_Witness ==
    /\ filtPc = "done" /\ Len(filtDevs) = 2
    /\ filtDevs[1].ext = "no" /\ filtDevs[1].fmts = "some"
    /\ filtOut.ext_first.tag = "ok" /\ DOMAIN filtOut.ext_first.val = {2}
    /\ filtOut.adq_first.tag = "ok" /\ DOMAIN filtOut.adq_first.val = {2}

\* C22: when the driver enumerates no physical device, discovery fails
\* before any filter runs, with an error distinct from the one raised when
\* the filters eliminate every candidate of a non-empty enumeration.
C22_NoDevicesFound ==
    selPc = "done" =>
      /\ devs = <<>> => selMap.tag = "err"
      /\ (devs # <<>> /\ selMain.tag = "panic")
            => selMain # main_pick_physical_device(TRUE, <<>>)
      /\ (devs # <<>> /\ selMap.tag = "ok" /\ DOMAIN selMap.val = {})
            => selUtil[1] \notin
                  pick_physical_device(util_select_devices(TRUE, <<>>).val)

\* C23: the instance extension list contains every extension the windowing
\* platform requires for the display handle and, in addition, the surface
\* extension and the debug extension; without a display handle it consists
\* of exactly those two (no list is built when the platform's query fails).
C23_ExtensionNames ==
    (negPc = "done" /\ negIn.kind = "extensions") =>
      LET h == negIn.display_handle
      IN IF ~h.some
         THEN /\ negLib.tag = "ok" /\ Len(negLib.val) = 2
              /\ Range(negLib.val) = {"VK_KHR_surface", "VK_EXT_debug_utils"}
         ELSE IF h.required.tag = "ok"
         THEN /\ negLib.tag = "ok"
              /\ Range(h.required.val) \subseteq Range(negLib.val)
              /\ {"VK_KHR_surface", "VK_EXT_debug_utils"}
                    \subseteq Range(negLib.val)
         ELSE negLib.tag = "err"

\* a display handle whose platform requires its own surface extension, and
\* the list built for it
C23_Witness ==
    /\ negPc = "done" /\ negIn.kind = "extensions"
    /\ negIn.display_handle.some
    /\ negIn.display_handle.required
          = Ok(<<"VK_KHR_surface", "VK_KHR_xlib_surface">>)
    /\ negLib.tag = "ok" /\ Len(negLib.val) = 4

\* C24: the slot is published once: after the slot holds a window no step
\* (request-window signal or lifecycle callback) writes the slot again.
C24_PublishedOnce ==
    [][shared_window # NoWindow => slot_writes' = slot_writes]_vars

\* C25: every create call and every destroy call on an API handle is made
\* by the worker thread and window creation only by the UI thread; no handle
\* is created on one thread and destroyed on the other.
C25_ThreadConfinement ==
    owners \subseteq {<<"create", "worker">>, <<"destroy", "worker">>,
                      <<"create_window", "ui">>}

\* a run in which the window was created, the handles were created and all
\* of them were destroyed
C25_Witness ==
    /\ TornDown
    /\ owners = {<<"create", "worker">>, <<"destroy", "worker">>,
                 <<"create_window", "ui">>}

\* reference: the stages of a pipeline run, in order
StageOrder ==
    <<"entry_load", "create_instance", "debug_messenger", "create_surface",
      "pick_physical_device", "create_device", "create_swapchain",
      "create_image_views">>

StageIndex(stage) == CHOOSE i \in DOMAIN StageOrder : StageOrder[i] = stage

\* reference: the stage that creates handles of the kind
StageOfKind(kind) ==
    CASE kind = "instance" -> "create_instance"
      [] kind = "debug" -> "debug_messenger"
      [] kind = "surface" -> "create_surface"
      [] kind = "device" -> "create_device"
      [] kind = "swapchain" -> "create_swapchain"
      [] kind = "view" -> "create_image_views"

\* reference: the kinds of the handles the stages before the given one
\* create when each of them succeeds
MadeBefore(stage) ==
    SelectSeq(<<"instance", "debug", "surface", "device", "swapchain">>,
              LAMBDA k : StageIndex(StageOfKind(k)) < StageIndex(stage))

KindsOf(made) == [i \in DOMAIN made |-> made[i].kind]

\* the create calls so far are in stage order, a stage in progress has the
\* handles of all stages before it, and a failed run has none of a later one
CreatesInOrder ==
    /\ \A i, j \in DOMAIN creates :
          i < j => \/ StageIndex(StageOfKind(creates[i].kind))
                        < StageIndex(StageOfKind(creates[j].kind))
                   \/ creates[i].kind = "view" /\ creates[j].kind = "view"
    /\ wpc \in Range(StageOrder) => KindsOf(creates) = MadeBefore(wpc)
    /\ (lastResult \in {"err", "panic"} /\ wpc \notin Range(StageOrder))
          => \A i \in DOMAIN creates :
                StageIndex(StageOfKind(creates[i].kind)) <= StageIndex(failedAt)

\* a stage is entered from the stage before it, which did not fail, and
\* the first stage from the poll that found the window
StageSteps ==
    (wpc' # wpc /\ wpc' \in Range(StageOrder)) =>
       IF wpc' = "entry_load" THEN wpc = "match"
       ELSE /\ wpc \in Range(StageOrder)
            /\ StageIndex(wpc') = StageIndex(wpc) + 1
            /\ failures' = failures

\* C26: within one pipeline run the create calls happen in the order
\* connection, debug sink, surface, (device selection,) logical device, swap
\* chain, image views; a stage starts only after the previous stages have
\* returned successfully; after a stage failed no later stage is started.
C26_StagesInOrder == []CreatesInOrder /\ [][StageSteps]_vars

\* create_surface returned an error after the connection and the debug sink
\* were made, and the run is over
C26_Witness ==
    /\ lastResult = "err" /\ failedAt = "create_surface" /\ wpc = "sleep"
    /\ KindsOf(creates) = <<"instance", "debug">>

\* the worker is past the loop only with a built app; once it is done, run
\* was called once and no handle of the run is live
AfterTheLoop ==
    /\ runs <= 1
    /\ wpc \in {"run", "done"} => vulkan_app = "Some" /\ lastResult = "ok"
    /\ wpc = "done" => runs = 1 /\ {h \in live : h.run = attempts} = {}

\* with a built app the poll that finds the window breaks and nothing is
\* constructed again; the loop is left only by that break
LeavingTheLoop ==
    /\ vulkan_app = "Some" => attempts' = attempts
    /\ (vulkan_app = "Some" /\ wpc = "match" /\ wpc' # wpc) => wpc' = "run"
    /\ (wpc' = "run" /\ wpc # "run")
          => wpc = "match" /\ vulkan_app = "Some" /\ shared_window # NoWindow
    /\ (wpc' = "done" /\ wpc # "done") => wpc = "run"

\* C27: after pipeline construction succeeds, the next poll that observes
\* the populated slot leaves the poll loop without constructing again, run
\* is called exactly once, and the worker thread then terminates with every
\* handle of the run destroyed; the worker goes on to the code after the
\* poll loop in no other way.
C27_BreakRunTeardown ==
    /\ []AfterTheLoop
    /\ [][LeavingTheLoop]_vars
    /\ (vulkan_app = "Some") ~>
          (wpc = "done" /\ runs = 1 /\ {h \in live : h.run = attempts} = {})

\* the worker broke out of the loop, ran the app and destroyed its handles
C27_Witness ==
    /\ wpc = "done" /\ runs = 1 /\ pollObserved = "populated"
    /\ destroys # <<>> /\ {h \in live : h.run = attempts} = {}

\* C28: device selection narrows stage by stage: the surface is asked for
\* the formats and present modes of a candidate only if the candidate has
\* the required device extension, and the queue families of a candidate are
\* scanned only if it has the extension and a non-empty format list and a
\* non-empty present-mode list.
C28_SelectionNarrows ==
    \A k \in 1..Len(selQueries) :
        LET q == selQueries[k]
            d == devs[q.dev]
        IN /\ q.query \in {"surface_formats", "surface_present_modes"}
                => d.ext = "yes"
           /\ q.query = "queue_family_properties"
                => d.ext = "yes" /\ d.fmts = "some" /\ d.modes = "some"

\* a step of the worker thread: its position or one of its variables changes
WorkerStep == workerVars' # workerVars \/ lockHolder' # lockHolder

\* C29: once the slot holds a window it is never emptied and never refers to
\* another window; every write of the slot is made by the UI thread's
\* request-window handler, and no step of the worker thread changes the slot.
C29_SlotStable ==
    [][/\ shared_window # NoWindow => shared_window' = shared_window
       /\ (shared_window' # shared_window \/ slot_writes' # slot_writes)
             => /\ uiPc = "lock_wait" /\ uiLast' = "user_event"
                /\ ~WorkerStep
       /\ WorkerStep => /\ shared_window' = shared_window
                        /\ slot_writes' = slot_writes]_vars

\* C29 happens: the slot was written a second time while it held the window,
\* and the worker has read it
C29_Witness ==
    /\ shared_window # NoWindow /\ shared_window \in windows
    /\ slot_writes = 2 /\ pollObserved = "populated"

\* C30: no thread panics while it holds the slot lock: the mutex is never
\* poisoned, and the UI thread never panics in its request-window handler
\* (the handler takes the lock only when a window exists, so a UI panic can
\* only be the failed create_window of resumed, before any window exists).
C30_LockNeverPoisoned ==
    /\ ~poisoned
    /\ uiPc = "panicked" => windows = {}

\* C31: the two queue-family scans agree on every device whose present-support
\* queries answer: util.rs devices_queue_family_support keeps the device iff
\* main.rs find_queue_families finds a graphics and a present family, and the
\* pair of indices it records is the pair find_queue_families returns.
C31_ScansAgree ==
    (scanPc = "done" /\ \A i \in DOMAIN scanFamilies : scanFamilies[i].present # "err")
    => /\ scanUtil.tag = "ok"
       /\ (1 \in DOMAIN scanUtil.val)
             <=> (scanMain[1] # None /\ scanMain[2] # None)
       /\ (1 \in DOMAIN scanUtil.val)
             => <<scanUtil.val[1].graphics_queue_index,
                  scanUtil.val[1].present_queue_index>> = scanMain

\* C32: for every non-empty advertised present-mode list the negotiated
\* present mode is a member of the list (main.rs and util.rs).
C32_PresentModeAdvertised ==
    (negPc = "done" /\ negIn.kind = "present_mode" /\ negIn.present_modes # <<>>) =>
      /\ negMain \in Range(negIn.present_modes)
      /\ negLib \in Range(negIn.present_modes)

\* C33: for every capabilities record with max_image_count = 0 or
\* max_image_count >= min_image_count, over the whole unsigned range, the
\* requested image count c is computed (no abort), c >= min_image_count, and
\* max_image_count = 0 or c <= max_image_count (main.rs and
\* vulkan_create.rs, with and without overflow checks).
C33_ImageCountInRange ==
    (/\ negPc = "done" /\ negIn.kind = "image_count"
     /\ (negIn.max_image_count = 0
           \/ negIn.max_image_count >= negIn.min_image_count))
    => /\ negMain.tag = "ok"
       /\ negMain.val >= negIn.min_image_count
       /\ negIn.max_image_count = 0 \/ negMain.val <= negIn.max_image_count
       /\ negLib.tag = "ok"
       /\ negLib.val >= negIn.min_image_count
       /\ negIn.max_image_count = 0 \/ negLib.val <= negIn.max_image_count

\* the extent e lies between the surface's min and max extent, per dimension
WithinExtents(e, capabilities) ==
    /\ capabilities.min_image_extent.width <= e.width
    /\ e.width <= capabilities.max_image_extent.width
    /\ capabilities.min_image_extent.height <= e.height
    /\ e.height <= capabilities.max_image_extent.height

\* C34: for a surface whose min extent does not exceed its max extent: when
\* the current width is the sentinel MAX_U32 the negotiated extent lies
\* between min and max in both dimensions, and the negotiated height is never
\* the sentinel MAX_U32 when max.height is smaller than MAX_U32 (main.rs and
\* util.rs).
C34_ExtentBounds ==
    (/\ negPc = "done" /\ negIn.kind = "extent"
     /\ negIn.capabilities.min_image_extent.width
           <= negIn.capabilities.max_image_extent.width
     /\ negIn.capabilities.min_image_extent.height
           <= negIn.capabilities.max_image_extent.height)
    => /\ negIn.capabilities.current_extent.width = MAX_U32
            => /\ WithinExtents(negMain, negIn.capabilities)
               /\ WithinExtents(negLib, negIn.capabilities)
       /\ negIn.capabilities.max_image_extent.height < MAX_U32
            => negMain.height # MAX_U32 /\ negLib.height # MAX_U32

\* C35: the UI thread creates at most one window, whatever resumed callbacks
\* and request-window signals it handles, and a populated slot refers to the
\* window held in the UI thread's window map.
C35_OneWindow ==
    /\ windows_made <= 1
    /\ Cardinality(windows) <= 1
    /\ shared_window # NoWindow => windows = {shared_window}

\* C35 happens: resumed ran again after the window was made and published
C35_Witness ==
    /\ resumed_calls = 2 /\ uiLast = "resumed" /\ windows_made = 1
    /\ shared_window # NoWindow /\ slot_writes >= 1

\* reference: the query the named filter makes about device d fails
ExtensionQueryFails(d) == d.ext = "err"
SurfaceQueryFails(d) == d.fmts = "err" \/ d.modes = "err"
PresentSupportQueryFails(d) ==
    \E k \in 1..Len(NonEmptyFamilies(d.families)) : d.families[k].present = "err"

\* reference: what a filter must have done on the whole enumeration ds when
\* Fails tells the candidates whose query fails: with a failing candidate the
\* result is the bare error and the candidates examined are those up to the
\* first failing one; without one the result is a candidate list and every
\* candidate was examined
ErrorAborts(ds, out, examined, Fails(_)) ==
    IF \E i \in DOMAIN ds : Fails(ds[i])
    THEN LET first == SetMin({i \in DOMAIN ds : Fails(ds[i])})
         IN out = Err /\ examined = [i \in 1..first |-> i]
    ELSE out.tag = "ok" /\ examined = [i \in DOMAIN ds |-> i]

\* C36: in each util.rs filter a failing driver query for one candidate makes
\* the filter return that error and no candidate list; the failing candidate
\* is not skipped and no candidate after it is examined.
C36_QueryErrorAborts ==
    filtPc # "start" =>
      /\ ErrorAborts(filtDevs, filtOut.ext_all, filtOut.ext_examined,
                     ExtensionQueryFails)
      /\ ErrorAborts(filtDevs, filtOut.adq_all, filtOut.adq_examined,
                     SurfaceQueryFails)
      /\ ErrorAborts(filtDevs, filtOut.qf_all, filtOut.qf_examined,
                     PresentSupportQueryFails)

\* C36 happens: the present-mode query of the first of two candidates fails;
\* the adequacy filter returned the error and never reached the second one
C36_Witness ==
    /\ filtPc # "start" /\ Len(filtDevs) = 2
    /\ filtDevs[1].fmts = "some" /\ filtDevs[1].modes = "err"
    /\ ~SurfaceQueryFails(filtDevs[2])
    /\ filtOut.adq_all = Err /\ filtOut.adq_examined = <<1>>


====
